---- MODULE Spec2Model ----
(***************************************************************************)
(* State-machine model of the scanner backend's real-time core:            *)
(*   src/app/services/websocket_manager.py  EnhancedConnectionManager      *)
(*   src/app/routers/websocket.py           websocket_endpoint             *)
(*   src/app/routers/api.py                 post_data                      *)
(*   src/app/__init__.py                    create_app.lifespan            *)
(*   src/app/database.py                    DatabaseManager                *)
(*   src/database.py                        DatabaseManager (bulk deletes) *)
(*   src/main.py                            the single-file application    *)
(*                                                                         *)
(* Scheduling is asyncio's: one task per endpoint call, request or         *)
(* create_task; a task runs without interruption from one await to the     *)
(* next, so every action below is the code between two awaits.  An await   *)
(* on the transport or the store may suspend, and then any other task may  *)
(* run before it completes.                                                *)
(***************************************************************************)
EXTENDS Integers, Sequences, FiniteSets, TLC

\* ------------------------------------------------------------------ bounds
MaxConns == 3      \* websocket endpoint invocations
MaxIngest == 1     \* POST /api/scan_data requests
MaxEvents == 5     \* inputs from outside: transports, frames, disconnects,
                   \* requests, the shutdown, clock advances
MaxRows == 2       \* rows of the scans table

Conns == 1..MaxConns
Requests == 1..MaxIngest

\* The instants the clock is read at, in whole seconds: around the liveness
\* boundary, and the same one day later.
Instants == {0, 59, 60, 86399, 86400, 86459, 86460}

\* A heartbeat's "client" field: a string, the JSON null, or not there.
NULL == "<null>"
ABSENT == "<absent>"
ClientInputs == {"station-A", NULL, ABSENT}

\* Inbound frames as json.loads sees them.
HeartbeatFrames == [type : {"heartbeat"}, client : ClientInputs]
OtherFrames == { [type |-> "ping", client |-> ABSENT],         \* another "type"
                 [type |-> ABSENT, client |-> ABSENT],         \* no "type" key
                 [type |-> "<malformed>", client |-> ABSENT],  \* JSONDecodeError
                 [type |-> "<nonobject>", client |-> ABSENT] } \* valid JSON, no dict
Frames == HeartbeatFrames \cup OtherFrames

Credentials == {"valid", "missing", "invalid"}

Platforms == {7}
Products == {42}
NONE == 0          \* PairDTO.product = None

\* What the store is asked: two platforms and two products; the instants of
\* CURRENT_TIMESTAMP, at the two ends of a day, at 10:00:00 in it and at the
\* start of the next (day 1 00:00:00, 10:00:00 and 23:59:59, day 2 00:00:00).
StoredPlatforms == {7, 8}
StoredProducts == {42, 43}
StoreInstants == {86400, 122400, 172799, 172800}

\* ----------------------------------------------------------------- helpers
Range(s) == { s[i] : i \in 1..Len(s) }

InList(s, x) == \E i \in 1..Len(s) : s[i] = x

\* list.remove(x): drops the first occurrence
ListRemove(s, x) ==
    LET i == CHOOSE k \in 1..Len(s) : s[k] = x /\ \A j \in 1..(k - 1) : s[j] # x
    IN  SubSeq(s, 1, i - 1) \o SubSeq(s, i + 1, Len(s))

DropAt(s, i) == SubSeq(s, 1, i - 1) \o SubSeq(s, i + 1, Len(s))

\* list.count(x)
Count(s, x) == Cardinality({ i \in 1..Len(s) : s[i] = x })

\* scanner_connections is a dict keyed by the websocket: an insertion-ordered
\* sequence of entries [ws, client, last_heartbeat, connected_at].
HasKey(d, k) == \E i \in 1..Len(d) : d[i].ws = k

\* d[k]
DictGet(d, k) == d[CHOOSE i \in 1..Len(d) : d[i].ws = k]

DictPop(d, k) == SelectSeq(d, LAMBDA e : e.ws # k)

\* d[k] = v: replaces the value of an existing key in place, else appends
DictSet(d, k, v) ==
    IF HasKey(d, k)
    THEN [i \in 1..Len(d) |-> IF d[i].ws = k THEN v ELSE d[i]]
    ELSE Append(d, v)

\* datetime.isoformat(): the calendar day and the time of day
isoformat(t) == <<t \div 86400, t % 86400>>

\* timedelta(...).seconds: the seconds field of the normalised
\* (days, seconds) pair, 0 <= seconds < 86400
timedelta_seconds(a, b) == (a - b) % 86400

\* --------------------------------------------------------------- variables
VARIABLES
    active_connections,   \* manager.active_connections: list of websockets
    scanner_connections,  \* manager.scanner_connections: dict ws -> info
    pc,                   \* per connection: where its websocket_endpoint task is
    ack_msg,              \* per connection: the message being sent to it
                          \* alone (a heartbeat_ack; an initial_data)
    status_tasks,         \* broadcast_scanner_status tasks created, not yet started
    bcasts,               \* broadcast() calls suspended in a send_text
    reqs,                 \* post_data requests, each with the connections
                          \* that were registered when it arrived
    scans,                \* the scans table
    sqlite_sequence,      \* AUTOINCREMENT's record of the greatest id ever
                          \* given to a row of scans
    inbox,                \* per connection, what its client has been sent:
                          \* the sessions the last scanner_status listed,
                          \* the rows of scans its initial_data and its
                          \* new_pair messages of src/main.py were about
    lifespan,             \* create_app.lifespan and its close_all_connections
    now,                  \* datetime.now(), in whole seconds
    events,               \* inputs taken from outside so far
    obs                   \* what the last step did: messages delivered, calls
                          \* made on the manager, a broadcast() that ended,
                          \* a frame handled and the level it was logged at,
                          \* a call on the store that returned, the answer
                          \* of a read route

vars == <<active_connections, scanner_connections, pc, ack_msg, status_tasks,
          bcasts, reqs, scans, sqlite_sequence, inbox, lifespan, now, events,
          obs>>

\* An input from outside is taken.
Input == events < MaxEvents /\ events' = events + 1

\* The caller of a broadcast(): a post_data request, or a
\* broadcast_scanner_status task.
StatusTask == [kind |-> "status_task", req |-> 0]
Request(r) == [kind |-> "post_data", req |-> r]

NoCaller == [kind |-> "none", req |-> 0]

NoReturn ==
    [caller |-> NoCaller, type |-> "none", start |-> <<>>, attempted |-> <<>>,
     failed |-> <<>>, interfered |-> FALSE, before |-> <<>>, after |-> <<>>,
     outcome |-> "none"]

Quiet ==
    [sent |-> <<>>, calls |-> <<>>, ret |-> NoReturn, frame |-> <<>>,
     store |-> <<>>, http |-> <<>>]

Sent(to, msg) == [to |-> to, msg |-> msg]

\* A client that has been sent nothing.
NoMessages == [scanner_status |-> <<>>, scans |-> {}]

\* The sessions a scanner_status lists, each by its label and the time it was
\* registered at.
Listed(scanners) ==
    [i \in 1..Len(scanners) |->
        [client |-> scanners[i].client, connected_at |-> scanners[i].connected_at]]
Call(op, ws, detail) == [op |-> op, ws |-> ws, detail |-> detail]

\* A call on the store that returned in the step: add_scan with the id it
\* returned, get_scan_pairs with its parameters and the list it returned.
Added(platform, product, scan_id) ==
    [op |-> "add_scan", platform |-> platform, product |-> product,
     date_from |-> <<>>, date_to |-> <<>>, date |-> <<>>,
     scan_id |-> scan_id, pairs |-> <<>>, deleted_count |-> 0,
     response |-> <<>>]

Queried(platform, product, date_from, date_to, date, pairs) ==
    [op |-> "get_scan_pairs", platform |-> platform, product |-> product,
     date_from |-> date_from, date_to |-> date_to, date |-> date,
     scan_id |-> 0, pairs |-> pairs, deleted_count |-> 0, response |-> <<>>]

\* The query route answered: the list get_scan_pairs returned to get_dict and
\* the map the route returned.
Answered(platform, product, date_from, date_to, date, pairs, response) ==
    [op |-> "get_dict", platform |-> platform, product |-> product,
     date_from |-> date_from, date_to |-> date_to, date |-> date,
     scan_id |-> 0, pairs |-> pairs, deleted_count |-> 0,
     response |-> response]

\* delete_scans_by_date with its date, or clear_all_scans, and the number of
\* rows it returned as deleted.
Deleted(op, target_date, deleted_count) ==
    [op |-> op, platform |-> NONE, product |-> NONE,
     date_from |-> <<>>, date_to |-> <<>>, date |-> target_date,
     scan_id |-> 0, pairs |-> <<>>, deleted_count |-> deleted_count,
     response |-> <<>>]

Init ==
    /\ active_connections = <<>>
    /\ scanner_connections = <<>>
    /\ pc = [c \in Conns |-> "new"]
    /\ ack_msg = [c \in Conns |-> <<>>]
    /\ status_tasks = 0
    /\ bcasts = <<>>
    /\ reqs = [r \in Requests |-> [pc |-> "new", platform |-> 0, product |-> 0,
                                   timestamp |-> <<0, 0>>, response |-> "none",
                                   observers |-> <<>>]]
    /\ scans = <<>>
    /\ sqlite_sequence = 0
    /\ inbox = [c \in Conns |-> NoMessages]
    /\ lifespan = [pc |-> "startup", copy |-> <<>>, idx |-> 0,
                   attempted |-> <<>>, calls |-> 0]
    /\ now = 0
    /\ events = 0
    /\ obs = Quiet

\* ------------------------------------------------- EnhancedConnectionManager

Manager == [ac |-> active_connections, sc |-> scanner_connections,
            tasks |-> status_tasks]

\* A disconnect that drops the last connection of the list, whichever
\* websocket it is called with.
disconnect_pops_last(st, ws) ==
    [ac |-> IF st.ac = <<>> THEN st.ac ELSE SubSeq(st.ac, 1, Len(st.ac) - 1),
     sc |-> st.sc, tasks |-> st.tasks]

\* A disconnect that pops the oldest scanner entry when the websocket has
\* none of its own.
disconnect_pops_any_session(st, ws) ==
    [ac |-> IF InList(st.ac, ws) THEN ListRemove(st.ac, ws) ELSE st.ac,
     sc |-> IF HasKey(st.sc, ws) THEN DictPop(st.sc, ws)
            ELSE IF st.sc = <<>> THEN st.sc ELSE Tail(st.sc),
     tasks |-> IF st.sc = <<>> THEN st.tasks ELSE st.tasks + 1]

\* A disconnect that forgets nothing: the websocket stays in the list and
\* keeps its scanner entry, and a status task is pending after it.
disconnect_forgets_nothing(st, ws) ==
    [ac |-> st.ac, sc |-> st.sc,
     tasks |-> IF HasKey(st.sc, ws) THEN 1 ELSE st.tasks]

\* A disconnect that creates the status task whether or not the websocket
\* had a scanner entry.
disconnect_always_announces(st, ws) ==
    [ac |-> IF InList(st.ac, ws) THEN ListRemove(st.ac, ws) ELSE st.ac,
     sc |-> DictPop(st.sc, ws), tasks |-> st.tasks + 1]

\* disconnect(websocket), on the manager's state [ac, sc, tasks]: the
\* websocket leaves the list if it is in it; if it has a scanner entry the
\* entry is popped and a broadcast_scanner_status task is created.
disconnect(st, ws) ==
    LET ac1 == IF InList(st.ac, ws) THEN ListRemove(st.ac, ws) ELSE st.ac
    IN  IF HasKey(st.sc, ws)
        THEN [ac |-> ac1, sc |-> DictPop(st.sc, ws), tasks |-> st.tasks + 1]
        ELSE [ac |-> ac1, sc |-> st.sc, tasks |-> st.tasks]

\* for connection in disconnected: self.disconnect(connection)
RECURSIVE disconnect_each(_, _)
disconnect_each(st, list) ==
    IF list = <<>> THEN st
    ELSE disconnect_each(disconnect(st, Head(list)), Tail(list))

\* The disconnect calls of such a loop, each with what its websocket was
\* when it was called: in neither collection ("absent"), a scanner with an
\* entry that the call pops ("scanner"), or in the list only ("present").
RECURSIVE DisconnectCalls(_, _)
DisconnectCalls(st, list) ==
    IF list = <<>> THEN <<>>
    ELSE <<Call("disconnect", Head(list),
                IF ~InList(st.ac, Head(list)) /\ ~HasKey(st.sc, Head(list))
                THEN "absent"
                ELSE IF HasKey(st.sc, Head(list)) THEN "scanner"
                ELSE "present")>>
         \o DisconnectCalls(disconnect(st, Head(list)), Tail(list))

\* A change of the list made by another task while a broadcast() is suspended
\* in a send is recorded on that broadcast.
Observe(bs, ac1) ==
    [j \in 1..Len(bs) |->
        [bs[j] EXCEPT !.interfered = @ \/ (ac1 # active_connections)]]

\* A snapshot without the session that registered first.
get_connected_scanners_info_skips_first ==
    [i \in 1..(Len(scanner_connections) - 1) |->
        LET info == scanner_connections[i + 1]
        IN  [client |-> info.client,
             connected_at |-> isoformat(info.connected_at),
             last_heartbeat |-> isoformat(info.last_heartbeat),
             is_active |-> timedelta_seconds(now, info.last_heartbeat) < 60]]

\* get_connected_scanners_info(): one entry per item of the dict, is_active
\* from the clock at the call
get_connected_scanners_info ==
    [i \in 1..Len(scanner_connections) |->
        LET info == scanner_connections[i]
        IN  [client |-> info.client,
             connected_at |-> isoformat(info.connected_at),
             last_heartbeat |-> isoformat(info.last_heartbeat),
             is_active |-> timedelta_seconds(now, info.last_heartbeat) < 60]]

\* register_scanner(websocket, scanner_info): the dict entry it stores, with
\* scanner_info.get('client', 'unknown') and two readings of the clock, t1 for
\* last_heartbeat and then t2 for connected_at
register_scanner(sc, ws, data, t1, t2) ==
    DictSet(sc, ws, [ws |-> ws,
                     client |-> IF data.client = ABSENT THEN "unknown"
                                ELSE data.client,
                     last_heartbeat |-> t1,
                     connected_at |-> t2])

\* An update_scanner_heartbeat that stores a fresh entry, as register_scanner
\* does, in place of the one it finds.
update_scanner_heartbeat_resets_session(sc, ws, t) ==
    IF HasKey(sc, ws)
    THEN [i \in 1..Len(sc) |->
            IF sc[i].ws = ws
            THEN [sc[i] EXCEPT !.last_heartbeat = t, !.connected_at = t]
            ELSE sc[i]]
    ELSE sc

\* An update_scanner_heartbeat that finds the entry and leaves it as it is.
update_scanner_heartbeat_keeps_reading(sc, ws, t) == sc

\* update_scanner_heartbeat(websocket)
update_scanner_heartbeat(sc, ws, t) ==
    IF HasKey(sc, ws)
    THEN [i \in 1..Len(sc) |->
            IF sc[i].ws = ws THEN [sc[i] EXCEPT !.last_heartbeat = t] ELSE sc[i]]
    ELSE sc

\* ---- broadcast(message)

\* What a broadcast() call did, for the step it ends in.
Summary(b, after, outcome) ==
    [caller |-> b.caller, type |-> b.msg.type, start |-> b.start,
     attempted |-> b.attempted, failed |-> b.disconnected,
     interfered |-> b.interfered, before |-> active_connections,
     after |-> after, outcome |-> outcome]

\* The call up to its first await: `if self.active_connections:`, and the
\* first step of the for loop, which starts a send to the first connection.
broadcast_call(msg, caller) ==
    IF active_connections = <<>>
    THEN [b |-> <<>>,
          ret |-> [NoReturn EXCEPT !.caller = caller, !.type = msg.type,
                                   !.outcome = "returned"]]
    ELSE [b |-> << [msg |-> msg, caller |-> caller,
                    cur |-> active_connections[1], idx |-> 1,
                    disconnected |-> <<>>, raised |-> FALSE,
                    start |-> active_connections,
                    attempted |-> <<active_connections[1]>>,
                    interfered |-> FALSE] >>,
          ret |-> NoReturn]

\* A handler that lets the send's exception leave broadcast().
broadcast_reraises(b) == [b EXCEPT !.raised = TRUE]

\* except Exception: logger.error(...); disconnected.append(connection)
broadcast_on_send_error(b) ==
    [b EXCEPT !.disconnected = Append(@, b.cur)]

\* The list iterator of `for connection in self.active_connections`: it holds
\* an index into the live list, and is exhausted when the index reaches the
\* list's length at that moment.
iter_has_next(b) == b.idx < Len(active_connections)

iter_next(b) ==
    [b EXCEPT !.cur = active_connections[b.idx + 1],
              !.idx = b.idx + 1,
              !.attempted = Append(@, active_connections[b.idx + 1])]

\* The awaiting caller when its broadcast() ends: post_data returns success,
\* or its `except Exception` turns an exception into a 500.
caller_resumes(caller, outcome) ==
    IF caller.kind = "post_data"
    THEN [reqs EXCEPT ![caller.req].pc = "done",
                      ![caller.req].response =
                          IF outcome = "returned" THEN "success" ELSE "error500"]
    ELSE reqs

\* The clients' side of the messages a step delivered: a client keeps the
\* list of a scanner_status it is sent in place of the one it had.
RECURSIVE deliver(_, _)
deliver(box, sent) ==
    IF sent = <<>> THEN box
    ELSE deliver(IF Head(sent).msg.type = "scanner_status"
                 THEN [box EXCEPT ![Head(sent).to].scanner_status =
                                      <<Listed(Head(sent).msg.scanners)>>]
                 ELSE IF "scan_ids" \in DOMAIN Head(sent).msg
                 THEN [box EXCEPT ![Head(sent).to].scans =
                                      @ \cup Head(sent).msg.scan_ids]
                 ELSE box,
                 Tail(sent))

\* A send_text of a broadcast returns (ok) or raises (~ok); the loop goes on
\* to the next connection, or ends, and then the connections whose send
\* raised are disconnected and broadcast() returns.
broadcast_send_done(i, ok) ==
    /\ i \in 1..Len(bcasts)
    /\ LET b == IF ok THEN bcasts[i] ELSE broadcast_on_send_error(bcasts[i])
           st == disconnect_each(Manager, b.disconnected)
           sent == IF ok THEN <<Sent(b.cur, b.msg)>> ELSE <<>>
       IN  /\ inbox' = deliver(inbox, sent)
           /\ IF b.raised
              THEN /\ bcasts' = DropAt(bcasts, i)
                   /\ obs' = [Quiet EXCEPT !.sent = sent,
                                  !.ret = Summary(b, active_connections, "raised")]
                   /\ reqs' = caller_resumes(b.caller, "raised")
                   /\ UNCHANGED <<active_connections, scanner_connections,
                                  status_tasks>>
              ELSE IF iter_has_next(b)
              THEN /\ bcasts' = [bcasts EXCEPT ![i] = iter_next(b)]
                   /\ obs' = [Quiet EXCEPT !.sent = sent]
                   /\ UNCHANGED <<active_connections, scanner_connections,
                                  status_tasks, reqs>>
              ELSE /\ active_connections' = st.ac
                   /\ scanner_connections' = st.sc
                   /\ status_tasks' = st.tasks
                   /\ bcasts' = Observe(DropAt(bcasts, i), st.ac)
                   /\ obs' = [Quiet EXCEPT !.sent = sent,
                                  !.calls = DisconnectCalls(Manager, b.disconnected),
                                  !.ret = Summary(b, st.ac, "returned")]
                   /\ reqs' = caller_resumes(b.caller, "returned")
    /\ UNCHANGED <<pc, ack_msg, scans, sqlite_sequence, lifespan, now, events>>

\* A created broadcast_scanner_status() task runs: the snapshot and the payload
\* are built when it runs; WSScannerInfo(client: str) rejects a client that is
\* no string, and the task then ends with that error before any send.
broadcast_scanner_status ==
    /\ status_tasks > 0
    /\ status_tasks' = status_tasks - 1
    /\ LET scanners_info == get_connected_scanners_info
           valid == \A i \in 1..Len(scanners_info) : scanners_info[i].client # NULL
           payload ==
               [type |-> "scanner_status",
                scanners |-> scanners_info,
                has_active_scanners |->
                    \E i \in 1..Len(scanners_info) : scanners_info[i].is_active,
                timestamp |-> isoformat(now)]
           call == broadcast_call(payload, StatusTask)
       IN  IF valid
           THEN /\ bcasts' = bcasts \o call.b
                /\ obs' = [Quiet EXCEPT !.ret = call.ret]
           ELSE /\ bcasts' = bcasts
                /\ obs' = Quiet
    /\ UNCHANGED <<active_connections, scanner_connections, pc, ack_msg, reqs,
                   scans, sqlite_sequence, lifespan, now, events, inbox>>

\* ------------------------------------------------------- websocket_endpoint

\* finally: manager.disconnect(websocket); the endpoint task ends, "rejected"
\* when it returned after the close with code 1008, "done" otherwise
endpoint_ends(c, how) ==
    LET st == disconnect(Manager, c)
    IN  /\ active_connections' = st.ac
        /\ scanner_connections' = st.sc
        /\ status_tasks' = st.tasks
        /\ bcasts' = Observe(bcasts, st.ac)
        /\ pc' = [pc EXCEPT ![c] = how]
        /\ obs' = [Quiet EXCEPT !.calls = DisconnectCalls(Manager, <<c>>)]

endpoint_finally(c) == endpoint_ends(c, "done")

\* An endpoint that goes on to connect whatever the token check found.
websocket_endpoint_skips_check(c, cred) ==
    /\ pc[c] = "new"
    /\ lifespan.pc = "serving"
    /\ \A d \in Conns : d < c => pc[d] # "new"
    /\ Input
    /\ pc' = [pc EXCEPT ![c] = "accept"]
    /\ obs' = [Quiet EXCEPT !.calls = <<Call("websocket_endpoint", c, cred)>>]
    /\ UNCHANGED <<active_connections, scanner_connections, ack_msg,
                   status_tasks, bcasts, reqs, scans, sqlite_sequence, lifespan, now, inbox>>

\* The endpoint is called for a new transport: the token check, then either
\* `await websocket.close(code=1008)` or `await manager.connect(websocket)`,
\* which awaits websocket.accept().  Transports are numbered in arrival order.
websocket_endpoint(c, cred) ==
    /\ pc[c] = "new"
    /\ lifespan.pc = "serving"
    /\ \A d \in Conns : d < c => pc[d] # "new"
    /\ Input
    /\ pc' = [pc EXCEPT ![c] = IF cred = "valid" THEN "accept" ELSE "reject"]
    /\ obs' = [Quiet EXCEPT !.calls =
                   <<Call("websocket_endpoint", c, cred)>>
                   \o (IF cred = "valid" THEN <<>>
                       ELSE <<Call("close", c, "1008")>>)]
    /\ UNCHANGED <<active_connections, scanner_connections, ack_msg,
                   status_tasks, bcasts, reqs, scans, sqlite_sequence, lifespan, now, inbox>>

\* websocket.close(code=1008) returns, or raises into `except Exception`:
\* both ways the endpoint ends through its finally.
reject_done(c) ==
    /\ pc[c] = "reject"
    /\ endpoint_ends(c, "rejected")
    /\ UNCHANGED <<ack_msg, reqs, scans, sqlite_sequence, lifespan, now, events, inbox>>

\* connect(): websocket.accept() returns and the websocket is appended, or it
\* raises: connect's handler removes the websocket if it is listed and
\* re-raises, and the endpoint ends through its except and finally.
connect_done(c, ok) ==
    /\ pc[c] = "accept"
    /\ IF ok
       THEN /\ active_connections' = Append(active_connections, c)
            /\ bcasts' = Observe(bcasts, Append(active_connections, c))
            /\ pc' = [pc EXCEPT ![c] = "receive"]
            /\ obs' = Quiet
            /\ UNCHANGED <<scanner_connections, status_tasks>>
       ELSE endpoint_finally(c)
    /\ UNCHANGED <<ack_msg, reqs, scans, sqlite_sequence, lifespan, now, events, inbox>>

\* A handle_message that answers every frame with an ack.
handle_message_acks_everything(c, data, t1, t2) ==
    [sc |-> scanner_connections, tasks |-> status_tasks, calls |-> <<>>,
     send |-> <<[type |-> "heartbeat_ack", timestamp |-> isoformat(t1)]>>,
     log |-> "info"]

\* A handle_message that takes every JSON object for a heartbeat, whatever
\* its type.
handle_message_ignores_type(c, data, t1, t2) ==
    IF data.type \in {"<malformed>", "<nonobject>"}
    THEN [sc |-> scanner_connections, tasks |-> status_tasks,
          calls |-> <<>>, send |-> <<>>, log |-> "error"]
    ELSE [sc |-> register_scanner(scanner_connections, c, data, t1, t2),
          tasks |-> status_tasks + 1,
          calls |-> <<Call("register_scanner", c, data.client)>>,
          send |-> <<[type |-> "heartbeat_ack", timestamp |-> isoformat(t2)]>>,
          log |-> "info"]

\* A handle_message that registers the scanner on every heartbeat.
handle_message_always_registers(c, data, t1, t2) ==
    IF data.type = "heartbeat"
    THEN [sc |-> register_scanner(scanner_connections, c, data, t1, t2),
          tasks |-> status_tasks + 1,
          calls |-> <<Call("register_scanner", c, data.client)>>,
          send |-> <<[type |-> "heartbeat_ack", timestamp |-> isoformat(t2)]>>,
          log |-> "info"]
    ELSE [sc |-> scanner_connections, tasks |-> status_tasks,
          calls |-> <<>>, send |-> <<>>,
          log |-> IF data.type \in {"<malformed>", "<nonobject>"}
                  THEN "error" ELSE "info"]

\* handle_message(websocket, message) up to its await, the clock reading t1
\* when it starts and t2 from register_scanner's second reading on: a
\* heartbeat registers the scanner (which also creates a
\* broadcast_scanner_status task) or updates its heartbeat, and builds the ack
\* that is then sent; any other frame, and one json.loads or data.get fails
\* on, changes nothing.  log is the level of the line it logs: logger.info
\* for a frame it handles or ignores, logger.error in its except clauses.
handle_message(c, data, t1, t2) ==
    IF data.type = "heartbeat"
    THEN IF ~HasKey(scanner_connections, c)
         THEN [sc |-> register_scanner(scanner_connections, c, data, t1, t2),
               tasks |-> status_tasks + 1,
               calls |-> <<Call("register_scanner", c, data.client)>>,
               send |-> <<[type |-> "heartbeat_ack",
                           timestamp |-> isoformat(t2)]>>,
               log |-> "info"]
         ELSE [sc |-> update_scanner_heartbeat(scanner_connections, c, t1),
               tasks |-> status_tasks,
               calls |-> <<Call("update_scanner_heartbeat", c, data.client)>>,
               send |-> <<[type |-> "heartbeat_ack",
                           timestamp |-> isoformat(t1)]>>,
               log |-> "info"]
    ELSE [sc |-> scanner_connections, tasks |-> status_tasks,
          calls |-> <<>>, send |-> <<>>,
          log |-> IF data.type \in {"<malformed>", "<nonobject>"}
                  THEN "error" ELSE "info"]

\* receive_text() returns a frame and handle_message runs on it; the task is
\* next suspended in the ack's send_text, or in the next receive_text.
receive_text(c, data, t2) ==
    /\ pc[c] = "receive"
    /\ Input
    /\ t2 >= now
    /\ LET h == handle_message(c, data, now, t2)
       IN  /\ scanner_connections' = h.sc
           /\ status_tasks' = h.tasks
           /\ ack_msg' = [ack_msg EXCEPT ![c] = h.send]
           /\ pc' = [pc EXCEPT ![c] = IF h.send # <<>> THEN "ack" ELSE "receive"]
           /\ obs' = [Quiet EXCEPT !.calls = h.calls,
                          !.frame = <<[ws |-> c, data |-> data, log |-> h.log]>>]
           /\ now' = IF h.calls # <<>> /\ h.calls[1].op = "register_scanner"
                     THEN t2 ELSE now
    /\ UNCHANGED <<active_connections, bcasts, reqs, scans, sqlite_sequence, lifespan, inbox>>

\* An ack that goes out through broadcast(), to every registered connection.
ack_done_broadcasts(c, ok) ==
    /\ pc[c] = "ack"
    /\ obs' = [Quiet EXCEPT !.sent =
                   IF ok THEN [k \in 1..Len(active_connections) |->
                                  Sent(active_connections[k], ack_msg[c][1])]
                   ELSE <<>>]
    /\ ack_msg' = [ack_msg EXCEPT ![c] = <<>>]
    /\ pc' = [pc EXCEPT ![c] = "receive"]
    /\ UNCHANGED <<active_connections, scanner_connections, status_tasks, bcasts,
                   reqs, scans, sqlite_sequence, lifespan, now, events, inbox>>

\* An ack whose failure ends the connection as a failed broadcast send does.
ack_done_disconnects_on_error(c, ok) ==
    /\ pc[c] = "ack"
    /\ LET st == IF ok THEN Manager ELSE disconnect(Manager, c)
       IN  /\ active_connections' = st.ac
           /\ scanner_connections' = st.sc
           /\ status_tasks' = st.tasks
           /\ bcasts' = Observe(bcasts, st.ac)
    /\ obs' = [Quiet EXCEPT
                  !.sent = IF ok THEN <<Sent(c, ack_msg[c][1])>> ELSE <<>>,
                  !.calls = IF ok THEN <<>>
                            ELSE <<Call("send_text", c, "raised")>>]
    /\ ack_msg' = [ack_msg EXCEPT ![c] = <<>>]
    /\ pc' = [pc EXCEPT ![c] = "receive"]
    /\ UNCHANGED <<reqs, scans, sqlite_sequence, lifespan, now, events, inbox>>

\* The ack's send_text returns, or raises into handle_message's
\* `except Exception`, which logs the error; handle_message returns and the
\* loop goes on to the next receive_text.
ack_done(c, ok) ==
    /\ pc[c] = "ack"
    /\ obs' = [Quiet EXCEPT
                  !.sent = IF ok THEN <<Sent(c, ack_msg[c][1])>> ELSE <<>>,
                  !.calls = IF ok THEN <<>>
                            ELSE <<Call("send_text", c, "raised")>>]
    /\ ack_msg' = [ack_msg EXCEPT ![c] = <<>>]
    /\ pc' = [pc EXCEPT ![c] = "receive"]
    /\ UNCHANGED <<active_connections, scanner_connections, status_tasks, bcasts,
                   reqs, scans, sqlite_sequence, lifespan, now, events, inbox>>

\* receive_text() raises an exception that is no WebSocketDisconnect (a
\* binary frame has no "text", a transport error): `except Exception` logs it
\* and `continue` goes back to receive_text.
ReceiveRaised == [type |-> "<receive raised>", client |-> ABSENT]

receive_error(c) ==
    /\ pc[c] = "receive"
    /\ Input
    /\ obs' = [Quiet EXCEPT
                  !.frame = <<[ws |-> c, data |-> ReceiveRaised, log |-> "error"]>>]
    /\ UNCHANGED <<active_connections, scanner_connections, pc, ack_msg,
                   status_tasks, bcasts, reqs, scans, sqlite_sequence, lifespan,
                   now, inbox>>

\* receive_text() raises WebSocketDisconnect: break, then the finally.
receive_disconnect(c) ==
    /\ pc[c] = "receive"
    /\ Input
    /\ endpoint_finally(c)
    /\ UNCHANGED <<ack_msg, reqs, scans, sqlite_sequence, lifespan, now, inbox>>

\* ------------------------------------------------------ create_app.lifespan

\* What a close_all_connections() call did, for the step it ends in: the
\* list it copied and the connections it called close() on.
CloseSummary(copy, attempted, outcome) ==
    [caller |-> [kind |-> "lifespan", req |-> 0],
     type |-> "close_all_connections", start |-> copy,
     attempted |-> attempted, failed |-> <<>>, interfered |-> FALSE,
     before |-> active_connections, after |-> <<>>, outcome |-> outcome]

\* close_all_connections() up to its first await, or to its end when the
\* copy of the list is empty.
close_all_connections ==
    IF active_connections = <<>>
    THEN /\ lifespan' = [lifespan EXCEPT !.pc = "done", !.calls = @ + 1]
         /\ active_connections' = <<>>
         /\ scanner_connections' = <<>>
         /\ bcasts' = Observe(bcasts, <<>>)
         /\ obs' = [Quiet EXCEPT !.ret = CloseSummary(<<>>, <<>>, "returned")]
    ELSE /\ lifespan' = [lifespan EXCEPT !.pc = "closing", !.calls = @ + 1,
                                         !.copy = active_connections, !.idx = 1,
                                         !.attempted = <<active_connections[1]>>]
         /\ obs' = Quiet
         /\ UNCHANGED <<active_connections, scanner_connections, bcasts>>

\* init_database() returns and the application serves, or it raises and the
\* finally runs close_all_connections at once.
lifespan_startup(ok) ==
    /\ lifespan.pc = "startup"
    /\ IF ok
       THEN /\ lifespan' = [lifespan EXCEPT !.pc = "serving"]
            /\ obs' = Quiet
            /\ UNCHANGED <<active_connections, scanner_connections, bcasts>>
       ELSE close_all_connections
    /\ UNCHANGED <<pc, ack_msg, status_tasks, reqs, scans, sqlite_sequence, now, events, inbox>>

\* The server ends the lifespan context: finally: close_all_connections().
lifespan_shutdown ==
    /\ lifespan.pc = "serving"
    /\ Input
    /\ close_all_connections
    /\ UNCHANGED <<pc, ack_msg, status_tasks, reqs, scans, sqlite_sequence, now, inbox>>

\* A handler that lets the close's exception leave close_all_connections().
close_all_reraises(l) == [l EXCEPT !.pc = "raised"]

\* except Exception: logger.error(...) around connection.close(): the loop
\* over the copy goes on.
close_all_on_close_error(l) == l

\* connection.close(code=1000) returns, or raises; the loop over the copy goes
\* on, and after it both collections are cleared.
close_done(ok) ==
    /\ lifespan.pc = "closing"
    /\ LET l == IF ok THEN lifespan ELSE close_all_on_close_error(lifespan)
           closed == Call("close", l.copy[l.idx], IF ok THEN "returned" ELSE "raised")
           ended == [l EXCEPT !.copy = <<>>, !.idx = 0, !.attempted = <<>>]
       IN  IF l.pc = "raised"
           THEN /\ lifespan' = ended
                /\ obs' = [Quiet EXCEPT !.calls = <<closed>>,
                               !.ret = CloseSummary(l.copy, l.attempted, "raised")]
                /\ UNCHANGED <<active_connections, scanner_connections, bcasts>>
           ELSE IF l.idx < Len(l.copy)
           THEN /\ lifespan' = [l EXCEPT !.idx = @ + 1,
                                         !.attempted = Append(@, l.copy[l.idx + 1])]
                /\ obs' = [Quiet EXCEPT !.calls = <<closed>>]
                /\ UNCHANGED <<active_connections, scanner_connections, bcasts>>
           ELSE /\ lifespan' = [ended EXCEPT !.pc = "done"]
                /\ active_connections' = <<>>
                /\ scanner_connections' = <<>>
                /\ bcasts' = Observe(bcasts, <<>>)
                /\ obs' = [Quiet EXCEPT !.calls = <<closed>>,
                               !.ret = CloseSummary(l.copy, l.attempted, "returned")]
    /\ UNCHANGED <<pc, ack_msg, status_tasks, reqs, scans, sqlite_sequence, now, events, inbox>>

\* ---------------------------------------------------------- DatabaseManager

\* scan_date and the date parameters are text, compared as SQLite's BINARY
\* collation compares it: character by character, a proper prefix first.  A
\* text is the sequence of its tokens: a zero-padded 'YYYY-MM-DD' (the day
\* number) and a zero-padded 'HH:MM:SS' (the second of the day) are one token
\* each and order as their numbers do; the characters between them order as
\* ' ' < '.' < any digit < 'T'.
SPACE == -2
DOT == -1
TEE == 1000000

TextLE(a, b) ==
    LET n == IF Len(a) < Len(b) THEN Len(a) ELSE Len(b)
    IN  \/ \E k \in 1..n : a[k] < b[k] /\ \A j \in 1..(k - 1) : a[j] = b[j]
        \/ Len(a) <= Len(b) /\ \A j \in 1..Len(a) : a[j] = b[j]

\* scan_date DATETIME DEFAULT CURRENT_TIMESTAMP: 'YYYY-MM-DD HH:MM:SS'
CURRENT_TIMESTAMP(t) == <<t \div 86400, SPACE, t % 86400>>

\* A bound that keeps its 'T'.
replace_T_keeps_separator(s) == s

\* s.replace("T", " ")
replace_T(s) == [i \in 1..Len(s) |-> IF s[i] = TEE THEN SPACE ELSE s[i]]

\* " " in s and ":" in s: a colon occurs only in a time of day, the third token
has_time(s) == (\E i \in 1..Len(s) : s[i] = SPACE) /\ Len(s) >= 3

\* A day that ends when the next one begins.
day_end_is_next_midnight(normalized_date) ==
    <<normalized_date[1] + 1, SPACE, 0>>

\* f"{normalized_date} 23:59:59.999999"
day_end(normalized_date) == normalized_date \o <<SPACE, 86399, DOT, 999999>>

\* f"{normalized_date} 00:00:00"
day_start(normalized_date) == normalized_date \o <<SPACE, 0>>

\* A WHERE clause without the product's equality.
where_ignores_product(row, platform, product, date_from, date_to, date) ==
    /\ platform # NONE => row.platform = platform
    /\ IF date # <<>>
       THEN /\ TextLE(day_start(replace_T(date)), row.scan_date)
            /\ TextLE(row.scan_date, day_end(replace_T(date)))
       ELSE /\ date_from # <<>> =>
                   TextLE(IF has_time(replace_T(date_from))
                          THEN replace_T(date_from)
                          ELSE day_start(replace_T(date_from)), row.scan_date)
            /\ date_to # <<>> =>
                   TextLE(row.scan_date,
                          IF has_time(replace_T(date_to))
                          THEN replace_T(date_to)
                          ELSE day_end(replace_T(date_to)))

\* The WHERE clause get_scan_pairs builds: None is NONE for platform and
\* product; None and "" are <<>> for a date parameter (`if date:`).
where(row, platform, product, date_from, date_to, date) ==
    /\ platform # NONE => row.platform = platform
    /\ product # NONE => row.product = product
    /\ IF date # <<>>
       THEN LET normalized_date == replace_T(date)
                start == day_start(normalized_date)
                end == day_end(normalized_date)
            IN  TextLE(start, row.scan_date) /\ TextLE(row.scan_date, end)
       ELSE /\ date_from # <<>> =>
                   LET df == replace_T(date_from)
                   IN  TextLE(IF has_time(df) THEN df ELSE day_start(df),
                              row.scan_date)
            /\ date_to # <<>> =>
                   LET dt == replace_T(date_to)
                   IN  TextLE(row.scan_date,
                              IF has_time(dt) THEN dt ELSE day_end(dt))

\* The orders with the oldest row first.
oldest_first(rows) ==
    IF rows = <<>> THEN {<<>>}
    ELSE { s \in [1..Len(rows) -> Range(rows)] :
             /\ \A i, j \in 1..Len(rows) : i # j => s[i] # s[j]
             /\ \A i \in 1..(Len(rows) - 1) :
                    TextLE(s[i].scan_date, s[i + 1].scan_date) }

\* ORDER BY scan_date DESC: every order of the rows in which no row comes
\* before a row with a greater scan_date; the order of rows with equal
\* scan_date is the query plan's.
newest_first(rows) ==
    IF rows = <<>> THEN {<<>>}
    ELSE { s \in [1..Len(rows) -> Range(rows)] :
             /\ \A i, j \in 1..Len(rows) : i # j => s[i] # s[j]
             /\ \A i \in 1..(Len(rows) - 1) :
                    TextLE(s[i + 1].scan_date, s[i].scan_date) }

\* get_scan_pairs(platform, product, date_from, date_to, date): the lists it
\* may return
get_scan_pairs(platform, product, date_from, date_to, date) ==
    LET selected == SelectSeq(scans, LAMBDA row :
                        where(row, platform, product, date_from, date_to, date))
    IN  { [i \in 1..Len(selected) |->
              [id |-> rows[i].id, platform |-> rows[i].platform,
               product |-> rows[i].product, timestamp |-> rows[i].scan_date]] :
          rows \in newest_first(selected) }

\* An INSERT that is never committed.
add_scan_without_commit(platform, product) ==
    [scans |-> scans, scan_id |-> sqlite_sequence + 1,
     sqlite_sequence |-> sqlite_sequence]

\* A table whose id is a plain INTEGER PRIMARY KEY: a new row gets one more
\* than the greatest id stored at the moment.
add_scan_reuses_rowid(platform, product) ==
    LET seen == { scans[i].id : i \in 1..Len(scans) }
        scan_id == IF seen = {} THEN 1
                   ELSE 1 + CHOOSE m \in seen : \A n \in seen : n <= m
    IN  [scans |-> Append(scans, [id |-> scan_id, platform |-> platform,
                                  product |-> product,
                                  scan_date |-> CURRENT_TIMESTAMP(now)]),
         scan_id |-> scan_id,
         sqlite_sequence |-> scan_id]

\* add_scan(platform, product): INSERT INTO scans (platform, product), commit,
\* return cursor.lastrowid; id INTEGER PRIMARY KEY AUTOINCREMENT gives the row
\* one more than the greatest id the table has ever held, which SQLite keeps
\* in sqlite_sequence.
add_scan(platform, product) ==
    LET scan_id == sqlite_sequence + 1
    IN  [scans |-> Append(scans, [id |-> scan_id, platform |-> platform,
                                  product |-> product,
                                  scan_date |-> CURRENT_TIMESTAMP(now)]),
         scan_id |-> scan_id,
         sqlite_sequence |-> scan_id]

\* ------------------------------------------------------------------ post_data

\* A map that keeps one entry per platform: platform_map[plat] = [entry].
platform_map_keeps_last(pairs) ==
    [plat \in { pairs[i].platform : i \in 1..Len(pairs) } |->
        LET mine == SelectSeq(pairs, LAMBDA item : item.platform = plat)
        IN  << [product |-> mine[Len(mine)].product,
                scanId |-> mine[Len(mine)].id] >>]

\* get_dict's platform_map: platform -> [{product, scanId}], in the order of
\* the pairs
platform_map(pairs) ==
    [plat \in { pairs[i].platform : i \in 1..Len(pairs) } |->
        LET mine == SelectSeq(pairs, LAMBDA item : item.platform = plat)
        IN  [i \in 1..Len(mine) |->
                [product |-> mine[i].product, scanId |-> mine[i].id]]]

\* get_dict(platform, product, date_from, date_to, date): the maps it may
\* return
get_dict(platform, product, date_from, date_to, date) ==
    { platform_map(pairs) :
        pairs \in get_scan_pairs(platform, product, date_from, date_to, date) }

\* WSChangePlatform(data=WSChangePlatformData(platform, pairs)).model_dump()
WSChangePlatform(platform, pairs) ==
    [type |-> "change_platform", data |-> [platform |-> platform, pairs |-> pairs]]

\* The request arrives: the timestamp defaults to now; with a product the
\* handler awaits add_scan, without one it awaits get_dict.  Requests are
\* numbered in arrival order.
post_data(r, platform, product) ==
    /\ reqs[r].pc = "new"
    /\ lifespan.pc = "serving"
    /\ \A q \in Requests : q < r => reqs[q].pc # "new"
    /\ reqs' = [reqs EXCEPT ![r] =
                   [pc |-> IF product # NONE THEN "add_scan" ELSE "get_dict",
                    platform |-> platform, product |-> product,
                    timestamp |-> isoformat(now), response |-> "none",
                    observers |-> active_connections]]
    /\ Input
    /\ obs' = Quiet
    /\ UNCHANGED <<active_connections, scanner_connections, pc, ack_msg,
                   status_tasks, bcasts, scans, sqlite_sequence, lifespan, now, inbox>>

\* A handler that broadcasts whether or not the store call succeeded.
store_done_broadcasts_anyway(r, ok) ==
    /\ reqs[r].pc \in {"add_scan", "get_dict"}
    /\ \E pairs \in get_dict(reqs[r].platform, NONE, <<>>, <<>>, <<>>) :
       LET rq == reqs[r]
           added == add_scan(rq.platform, rq.product)
           msg == IF rq.pc = "add_scan"
                  THEN [type |-> "new_pair",
                        data |-> [platform |-> rq.platform, product |-> rq.product,
                                  timestamp |-> rq.timestamp]]
                  ELSE WSChangePlatform(rq.platform, pairs)
           call == broadcast_call(msg, Request(r))
       IN  /\ scans' = IF ok /\ rq.pc = "add_scan" THEN added.scans ELSE scans
           /\ sqlite_sequence' = IF ok /\ rq.pc = "add_scan"
                                 THEN added.sqlite_sequence ELSE sqlite_sequence
           /\ bcasts' = bcasts \o call.b
           /\ obs' = [Quiet EXCEPT !.ret = call.ret]
           /\ reqs' = IF call.b = <<>>
                      THEN [reqs EXCEPT ![r].pc = "done",
                                        ![r].response = "success"]
                      ELSE [reqs EXCEPT ![r].pc = "broadcast"]
    /\ UNCHANGED <<active_connections, scanner_connections, pc, ack_msg,
                   status_tasks, lifespan, now, events, inbox>>

\* The store call returns and manager.broadcast(...) is called on its result,
\* or it raises and `except Exception` answers with a 500.
store_done(r, ok) ==
    /\ reqs[r].pc \in {"add_scan", "get_dict"}
    /\ \E pairs \in get_dict(reqs[r].platform, NONE, <<>>, <<>>, <<>>) :
       LET rq == reqs[r]
           added == add_scan(rq.platform, rq.product)
           msg == IF rq.pc = "add_scan"
                  THEN [type |-> "new_pair",
                        data |-> [platform |-> rq.platform, product |-> rq.product,
                                  timestamp |-> rq.timestamp]]
                  ELSE WSChangePlatform(rq.platform, pairs)
           call == broadcast_call(msg, Request(r))
       IN  IF ok
           THEN /\ scans' = IF rq.pc = "add_scan" THEN added.scans ELSE scans
                /\ sqlite_sequence' = IF rq.pc = "add_scan"
                                      THEN added.sqlite_sequence
                                      ELSE sqlite_sequence
                /\ bcasts' = bcasts \o call.b
                /\ obs' = [Quiet EXCEPT
                              !.ret = call.ret,
                              !.store = IF rq.pc = "add_scan"
                                        THEN <<Added(rq.platform, rq.product,
                                                     added.scan_id)>>
                                        ELSE <<>>]
                /\ reqs' = IF call.b = <<>>
                           THEN [reqs EXCEPT ![r].pc = "done",
                                             ![r].response = "success"]
                           ELSE [reqs EXCEPT ![r].pc = "broadcast"]
           ELSE /\ reqs' = [reqs EXCEPT ![r].pc = "done",
                                        ![r].response = "error500"]
                /\ obs' = Quiet
                /\ UNCHANGED <<scans, sqlite_sequence, bcasts>>
    /\ UNCHANGED <<active_connections, scanner_connections, pc, ack_msg,
                   status_tasks, lifespan, now, events, inbox>>

\* GET /api/scanners: the snapshot and the number of tracked sessions, read
\* without an await in between.
get_scanners ==
    /\ lifespan.pc = "serving"
    /\ obs' = [Quiet EXCEPT
                  !.http = << [route |-> "get_scanners",
                               scanners |-> get_connected_scanners_info,
                               total_scanners |-> Len(scanner_connections)] >>]
    /\ UNCHANGED <<active_connections, scanner_connections, pc, ack_msg,
                   status_tasks, bcasts, reqs, scans, sqlite_sequence, lifespan,
                   now, events, inbox>>

\* ------------------------------------------------------ the store, directly
\* A caller awaits db_manager.add_scan(platform, product) and it returns.
add_scan_returns(platform, product) ==
    /\ Len(scans) < MaxRows
    /\ Input
    /\ LET added == add_scan(platform, product)
       IN  /\ scans' = added.scans
           /\ sqlite_sequence' = added.sqlite_sequence
           /\ obs' = [Quiet EXCEPT
                         !.store = <<Added(platform, product, added.scan_id)>>]
    /\ UNCHANGED <<active_connections, scanner_connections, pc, ack_msg,
                   status_tasks, bcasts, reqs, lifespan, now, inbox>>

\* GET /api/scan/pairs: the route awaits get_dict of its parameters, which
\* awaits db_manager.get_scan_pairs and builds the map the route returns.
get_scan_pairs_route(platform, product, date_from, date_to, date) ==
    /\ lifespan.pc = "serving"
    /\ \E pairs \in get_scan_pairs(platform, product, date_from, date_to, date) :
           obs' = [Quiet EXCEPT
                      !.store = <<Answered(platform, product, date_from, date_to,
                                           date, pairs, platform_map(pairs))>>]
    /\ UNCHANGED <<active_connections, scanner_connections, pc, ack_msg,
                   status_tasks, bcasts, reqs, scans, sqlite_sequence, lifespan,
                   now, events, inbox>>

\* DATE(scan_date): the 'YYYY-MM-DD' of the text
DATE(scan_date) == <<scan_date[1]>>

\* delete_scans_by_date(target_date): DELETE FROM scans WHERE
\* DATE(scan_date) = ?, commit, return cursor.rowcount.
delete_scans_by_date(target_date) ==
    /\ Input
    /\ scans' = SelectSeq(scans, LAMBDA row : DATE(row.scan_date) # target_date)
    /\ obs' = [Quiet EXCEPT
                  !.store = <<Deleted("delete_scans_by_date", target_date,
                                      Len(scans) - Len(scans'))>>]
    /\ UNCHANGED <<active_connections, scanner_connections, pc, ack_msg,
                   status_tasks, bcasts, reqs, sqlite_sequence, lifespan, now, inbox>>

\* clear_all_scans(): DELETE FROM scans, commit, return cursor.rowcount.
clear_all_scans ==
    /\ Input
    /\ scans' = <<>>
    /\ obs' = [Quiet EXCEPT
                  !.store = <<Deleted("clear_all_scans", <<>>, Len(scans))>>]
    /\ UNCHANGED <<active_connections, scanner_connections, pc, ack_msg,
                   status_tasks, bcasts, reqs, sqlite_sequence, lifespan, now, inbox>>

\* A caller awaits db_manager.get_scan_pairs(...) and it returns.
get_scan_pairs_returns(platform, product, date_from, date_to, date) ==
    /\ \E pairs \in get_scan_pairs(platform, product, date_from, date_to, date) :
           obs' = [Quiet EXCEPT
                      !.store = <<Queried(platform, product, date_from, date_to,
                                          date, pairs)>>]
    /\ UNCHANGED <<active_connections, scanner_connections, pc, ack_msg,
                   status_tasks, bcasts, reqs, scans, sqlite_sequence, lifespan, now, events, inbox>>

\* -------------------------------------------------------------------- clock
\* Time passes between two steps.
Tick(t) ==
    /\ t > now
    /\ Input
    /\ now' = t
    /\ obs' = Quiet
    /\ UNCHANGED <<active_connections, scanner_connections, pc, ack_msg,
                   status_tasks, bcasts, reqs, scans, sqlite_sequence, lifespan, inbox>>

\* ------------------------------------------------------- the store's inputs
\* The parameters of a query: a platform, a product, or None; for date a
\* calendar day 'YYYY-MM-DD'; for date_from and date_to a calendar day or an
\* ISO date and time 'YYYY-MM-DDTHH:MM:SS'; or None.
PlatformParams == {NONE, 7}
ProductParams == {NONE, 42}
DateParams == {<<>>, <<1>>, <<2>>}
RangeParams == {<<>>, <<1>>, <<1, TEE, 36000>>}

\* The tables an earlier run of the application has left in the database
\* file: ids in insertion order, scan_date never decreasing.
StoredRows(i) ==
    [id : {i}, platform : StoredPlatforms, product : StoredProducts,
     scan_date : { CURRENT_TIMESTAMP(t) : t \in StoreInstants }]

StoredTables ==
    {<<>>} \cup { <<r>> : r \in StoredRows(1) }
           \cup UNION { { <<r1, r2>> :
                             r2 \in { r \in StoredRows(2) :
                                        TextLE(r1.scan_date, r.scan_date) } } :
                         r1 \in StoredRows(1) }

\* The application starts on a database file that holds a table, at an
\* instant not before the table's last row.
InitStore ==
    /\ active_connections = <<>>
    /\ scanner_connections = <<>>
    /\ pc = [c \in Conns |-> "new"]
    /\ ack_msg = [c \in Conns |-> <<>>]
    /\ status_tasks = 0
    /\ bcasts = <<>>
    /\ reqs = [r \in Requests |-> [pc |-> "new", platform |-> 0, product |-> 0,
                                   timestamp |-> <<0, 0>>, response |-> "none",
                                   observers |-> <<>>]]
    /\ scans \in StoredTables
    /\ sqlite_sequence = Len(scans)
    /\ inbox = [c \in Conns |-> NoMessages]
    /\ lifespan = [pc |-> "startup", copy |-> <<>>, idx |-> 0,
                   attempted |-> <<>>, calls |-> 0]
    /\ now \in { t \in StoreInstants :
                   \A i \in 1..Len(scans) :
                       TextLE(scans[i].scan_date, CURRENT_TIMESTAMP(t)) }
    /\ events = 0
    /\ obs = Quiet

\* ------------------------------------------------------ src/main.py (legacy)
\* The single-file application.  Its EnhancedConnectionManager has the
\* disconnect, broadcast and close_all_connections of the packaged one, line
\* for line; connect, send_initial_data and post_data differ and are these.
\* A message of main.py carries scan_ids, the rows of scans it is about: the
\* payload itself has their platform, product and timestamp only.

\* date.today()
date_today == <<now \div 86400>>

\* get_scans_by_date(target_date): the rows of the day, ORDER BY scan_date DESC
get_scans_by_date(target_date) ==
    newest_first(SelectSeq(scans, LAMBDA row : DATE(row.scan_date) = target_date))

\* send_initial_data's message for the rows get_scans_by_date returned
initial_data(today_scans) ==
    [type |-> "initial_data",
     data |-> [i \in 1..Len(today_scans) |->
                  [platform |-> today_scans[i].platform,
                   product |-> today_scans[i].product,
                   timestamp |-> today_scans[i].scan_date]],
     total_pairs |-> Len(today_scans),
     scan_ids |-> { today_scans[i].id : i \in 1..Len(today_scans) }]

\* websocket_endpoint of main.py is called for a new transport and awaits
\* manager.connect, which awaits websocket.accept(); there is no token check.
main_websocket_endpoint(c) ==
    /\ pc[c] = "new"
    /\ lifespan.pc = "serving"
    /\ \A d \in Conns : d < c => pc[d] # "new"
    /\ Input
    /\ pc' = [pc EXCEPT ![c] = "main_accept"]
    /\ obs' = [Quiet EXCEPT !.calls = <<Call("websocket_endpoint", c, "main")>>]
    /\ UNCHANGED <<active_connections, scanner_connections, ack_msg,
                   status_tasks, bcasts, reqs, scans, sqlite_sequence, inbox,
                   lifespan, now>>

\* connect(): accept() returns, the websocket is appended and
\* send_initial_data awaits get_scans_by_date(date.today()); or accept()
\* raises, and the endpoint ends through its except and finally.
main_accept_done(c, ok) ==
    /\ pc[c] = "main_accept"
    /\ IF ok
       THEN /\ active_connections' = Append(active_connections, c)
            /\ bcasts' = Observe(bcasts, Append(active_connections, c))
            /\ pc' = [pc EXCEPT ![c] = "get_scans_by_date"]
            /\ obs' = Quiet
            /\ UNCHANGED <<scanner_connections, status_tasks>>
       ELSE endpoint_finally(c)
    /\ UNCHANGED <<ack_msg, reqs, scans, sqlite_sequence, inbox, lifespan, now,
                   events>>

\* get_scans_by_date returns the rows the message is built from, and
\* send_initial_data awaits get_scan_statistics().
main_get_scans_done(c) ==
    /\ pc[c] = "get_scans_by_date"
    /\ \E today_scans \in get_scans_by_date(date_today) :
           ack_msg' = [ack_msg EXCEPT ![c] = <<initial_data(today_scans)>>]
    /\ pc' = [pc EXCEPT ![c] = "get_scan_statistics"]
    /\ obs' = Quiet
    /\ UNCHANGED <<active_connections, scanner_connections, status_tasks, bcasts,
                   reqs, scans, sqlite_sequence, inbox, lifespan, now, events>>

\* get_scan_statistics returns and send_initial_data awaits send_text.
main_statistics_done(c) ==
    /\ pc[c] = "get_scan_statistics"
    /\ pc' = [pc EXCEPT ![c] = "initial_data"]
    /\ obs' = Quiet
    /\ UNCHANGED <<active_connections, scanner_connections, ack_msg,
                   status_tasks, bcasts, reqs, scans, sqlite_sequence, inbox,
                   lifespan, now, events>>

\* The send of initial_data returns and the endpoint goes into its receive
\* loop; or it raises: send_initial_data re-raises, connect removes the
\* websocket and re-raises, and the endpoint ends through its finally.
main_initial_data_done(c, ok) ==
    /\ pc[c] = "initial_data"
    /\ ack_msg' = [ack_msg EXCEPT ![c] = <<>>]
    /\ IF ok
       THEN /\ inbox' = deliver(inbox, <<Sent(c, ack_msg[c][1])>>)
            /\ pc' = [pc EXCEPT ![c] = "receive"]
            /\ obs' = [Quiet EXCEPT !.sent = <<Sent(c, ack_msg[c][1])>>]
            /\ UNCHANGED <<active_connections, scanner_connections,
                           status_tasks, bcasts>>
       ELSE /\ endpoint_finally(c)
            /\ inbox' = inbox
    /\ UNCHANGED <<reqs, scans, sqlite_sequence, lifespan, now, events>>

\* post_data of main.py: the request arrives; with a product the handler
\* awaits add_scan, without one it answers "partial" at once.
main_post_data(r, platform, product) ==
    /\ reqs[r].pc = "new"
    /\ lifespan.pc = "serving"
    /\ \A q \in Requests : q < r => reqs[q].pc # "new"
    /\ reqs' = [reqs EXCEPT ![r] =
                   [pc |-> IF product # NONE THEN "main_add_scan" ELSE "done",
                    platform |-> platform, product |-> product,
                    timestamp |-> isoformat(now),
                    response |-> IF product # NONE THEN "none" ELSE "partial",
                    observers |-> active_connections]]
    /\ Input
    /\ obs' = Quiet
    /\ UNCHANGED <<active_connections, scanner_connections, pc, ack_msg,
                   status_tasks, bcasts, scans, sqlite_sequence, inbox, lifespan,
                   now>>

\* add_scan has committed and returns: manager.broadcast is called with the
\* new_pair; or it raises and `except Exception` answers with a 500.
main_add_scan_done(r, ok) ==
    /\ reqs[r].pc = "main_add_scan"
    /\ LET rq == reqs[r]
           added == add_scan(rq.platform, rq.product)
           message == [type |-> "new_pair",
                       data |-> [platform |-> rq.platform,
                                 product |-> rq.product,
                                 timestamp |-> rq.timestamp],
                       scan_ids |-> {added.scan_id}]
           call == broadcast_call(message, Request(r))
       IN  IF ok
           THEN /\ scans' = added.scans
                /\ sqlite_sequence' = added.sqlite_sequence
                /\ bcasts' = bcasts \o call.b
                /\ obs' = [Quiet EXCEPT
                              !.ret = call.ret,
                              !.store = <<Added(rq.platform, rq.product,
                                                added.scan_id)>>]
                /\ reqs' = IF call.b = <<>>
                           THEN [reqs EXCEPT ![r].pc = "done",
                                             ![r].response = "success"]
                           ELSE [reqs EXCEPT ![r].pc = "broadcast"]
           ELSE /\ reqs' = [reqs EXCEPT ![r].pc = "done",
                                        ![r].response = "error500"]
                /\ obs' = Quiet
                /\ UNCHANGED <<scans, sqlite_sequence, bcasts>>
    /\ UNCHANGED <<active_connections, scanner_connections, pc, ack_msg,
                   status_tasks, inbox, lifespan, now, events>>

\* ----------------------------------------------------------- specifications
\* Every endpoint call, with any credentials and any outcome of the accept.
Endpoints ==
    \/ \E c \in Conns, cred \in Credentials : websocket_endpoint(c, cred)
    \/ \E c \in Conns : reject_done(c)
    \/ \E c \in Conns, ok \in BOOLEAN : connect_done(c, ok)
    \/ \E c \in Conns : receive_disconnect(c)

\* Endpoint calls of clients that hold a valid token and are accepted.
Clients ==
    \/ \E c \in Conns : websocket_endpoint(c, "valid")
    \/ \E c \in Conns : connect_done(c, TRUE)
    \/ \E c \in Conns : receive_disconnect(c)

Lifespan ==
    \/ \E ok \in BOOLEAN : lifespan_startup(ok)
    \/ lifespan_shutdown
    \/ \E ok \in BOOLEAN : close_done(ok)

Ingest ==
    \/ \E r \in Requests, p \in Platforms, q \in Products \cup {NONE} :
           post_data(r, p, q)
    \/ \E r \in Requests, ok \in BOOLEAN : store_done(r, ok)

Broadcasts ==
    \/ broadcast_scanner_status
    \/ \E i \in 1..Len(bcasts), ok \in BOOLEAN : broadcast_send_done(i, ok)

\* The frames of a scanner that names itself, and the frames that are no
\* heartbeat.
ScannerFrames == { f \in HeartbeatFrames : f.client = "station-A" } \cup OtherFrames

\* The two clock readings of a registration are at most a second apart.
NextReading == { t \in Instants : t - now \in {0, 1} }

\* The broadcast hub: connections come and go, requests are ingested and
\* broadcast, the application shuts down; no client sends a frame.
Next ==
    \/ Endpoints
    \/ Lifespan
    \/ Ingest
    \/ \E i \in 1..Len(bcasts), ok \in BOOLEAN : broadcast_send_done(i, ok)

Spec == Init /\ [][Next]_vars

\* Presence: accepted clients send frames while the application serves, within
\* one second of the clock.
NextPresence ==
    \/ lifespan_startup(TRUE)
    \/ Clients
    \/ \E c \in Conns, data \in ScannerFrames : receive_text(c, data, now)
    \/ \E c \in Conns, ok \in BOOLEAN : ack_done(c, ok)
    \/ Broadcasts

SpecPresence == Init /\ [][NextPresence]_vars

\* Presence on sound transports: every send succeeds, and every task of the
\* event loop that can run does eventually run: an accept returns, a created
\* task is started, a send returns.
NextScanners ==
    \/ lifespan_startup(TRUE)
    \/ Clients
    \/ \E c \in Conns, data \in ScannerFrames : receive_text(c, data, now)
    \/ \E c \in Conns : ack_done(c, TRUE)
    \/ broadcast_scanner_status
    \/ \E i \in 1..Len(bcasts) : broadcast_send_done(i, TRUE)

SpecScanners == Init /\ [][NextScanners]_vars

SpecFair ==
    /\ Init /\ [][NextScanners]_vars
    /\ WF_vars(\E c \in Conns : connect_done(c, TRUE))
    /\ WF_vars(\E c \in Conns : ack_done(c, TRUE))
    /\ WF_vars(broadcast_scanner_status)
    /\ WF_vars(\E i \in 1..Len(bcasts) : broadcast_send_done(i, TRUE))

\* The status broadcasts after the inputs have ended.  The state the inputs
\* have left: n connections are registered, in the order they arrived in; k
\* of them have sent a first heartbeat and have been acknowledged, in any
\* order, which has created k broadcast_scanner_status tasks; none has run.
ChainSessions(n) ==
    UNION { { s \in [1..k -> 1..n] : \A i, j \in 1..k : i # j => s[i] # s[j] } :
            k \in 1..(IF MaxEvents - n < n THEN MaxEvents - n ELSE n) }

InitChain ==
    \E n \in 1..MaxConns : \E order \in ChainSessions(n) :
        /\ active_connections = [i \in 1..n |-> i]
        /\ scanner_connections =
               [i \in 1..Len(order) |->
                   [ws |-> order[i], client |-> "station-A",
                    last_heartbeat |-> 0, connected_at |-> 0]]
        /\ pc = [c \in Conns |-> IF c <= n THEN "receive" ELSE "new"]
        /\ ack_msg = [c \in Conns |-> <<>>]
        /\ status_tasks = Len(order)
        /\ bcasts = <<>>
        /\ reqs = [r \in Requests |-> [pc |-> "new", platform |-> 0, product |-> 0,
                                       timestamp |-> <<0, 0>>, response |-> "none",
                                       observers |-> <<>>]]
        /\ scans = <<>>
        /\ sqlite_sequence = 0
        /\ inbox = [c \in Conns |-> NoMessages]
        /\ lifespan = [pc |-> "serving", copy |-> <<>>, idx |-> 0,
                       attempted |-> <<>>, calls |-> 0]
        /\ now = 0
        /\ events = n + Len(order)
        /\ obs = Quiet

\* A send returns or raises, and every task that can run does eventually run:
\* a created task is started, a send ends.
NextChain == Broadcasts

SpecChain ==
    /\ InitChain /\ [][NextChain]_vars
    /\ WF_vars(broadcast_scanner_status)
    /\ WF_vars(\E i \in 1..Len(bcasts), ok \in BOOLEAN : broadcast_send_done(i, ok))

\* Presence as the read route shows it: scanners come and go on sound
\* transports, and the presence read is called at any moment.
NextRead ==
    \/ NextScanners
    \/ get_scanners

SpecRead == Init /\ [][NextRead]_vars

\* Presence on transports whose receive may fail: scanners come and go, and
\* a receive_text may raise an error that is no disconnect.
NextTransport ==
    \/ NextScanners
    \/ \E c \in Conns : receive_error(c)

SpecTransport == Init /\ [][NextTransport]_vars

\* Presence over days: the clock advances between steps, heartbeats carry any
\* client field, and every send succeeds.
NextClock ==
    \/ lifespan_startup(TRUE)
    \/ Clients
    \/ \E c \in Conns, data \in HeartbeatFrames, t2 \in NextReading :
           receive_text(c, data, t2)
    \/ \E c \in Conns : ack_done(c, TRUE)
    \/ broadcast_scanner_status
    \/ \E i \in 1..Len(bcasts) : broadcast_send_done(i, TRUE)
    \/ \E t \in Instants : Tick(t)

SpecClock == Init /\ [][NextClock]_vars

\* Presence at shutdown: scanners are registered when the lifespan ends, and
\* every send succeeds.
NextShutdown ==
    \/ Lifespan
    \/ Clients
    \/ \E c \in Conns, data \in ScannerFrames : receive_text(c, data, now)
    \/ \E c \in Conns : ack_done(c, TRUE)
    \/ broadcast_scanner_status
    \/ \E i \in 1..Len(bcasts) : broadcast_send_done(i, TRUE)

SpecShutdown == Init /\ [][NextShutdown]_vars

\* The store on its own: rows are added to the table an earlier run has left,
\* and the table is queried with every combination of parameters.
NextStore ==
    \/ \E p \in StoredPlatforms, q \in StoredProducts : add_scan_returns(p, q)
    \/ \E p \in PlatformParams, q \in ProductParams, df \in RangeParams,
          dt \in RangeParams, d \in DateParams :
           get_scan_pairs_returns(p, q, df, dt, d)

\* The store is called at the last of the instants.
InitQueries ==
    /\ InitStore
    /\ \A t \in StoreInstants : t <= now

SpecStore == InitQueries /\ [][NextStore]_vars

\* The query route: the application serves a stored table, rows are added
\* to it, and the route is called with every combination of parameters.
NextQuery ==
    \/ lifespan_startup(TRUE)
    \/ \E p \in StoredPlatforms, q \in StoredProducts : add_scan_returns(p, q)
    \/ \E p \in PlatformParams, q \in ProductParams, df \in RangeParams,
          dt \in RangeParams, d \in DateParams :
           get_scan_pairs_route(p, q, df, dt, d)

SpecQuery == InitQueries /\ [][NextQuery]_vars

\* The store with its bulk deletes: rows are added and deleted, by day or
\* all at once, as the clock advances.
NextBulk ==
    \/ \E p \in StoredPlatforms, q \in StoredProducts : add_scan_returns(p, q)
    \/ \E d \in DateParams \ {<<>>} : delete_scans_by_date(d)
    \/ clear_all_scans
    \/ \E t \in StoreInstants : Tick(t)

SpecBulk == InitStore /\ [][NextBulk]_vars

\* A platform change: the application starts on a stored table, one observer
\* connects, and a request is ingested for a platform, with or without a
\* product; every send succeeds.
NextPlatform ==
    \/ lifespan_startup(TRUE)
    \/ websocket_endpoint(1, "valid")
    \/ connect_done(1, TRUE)
    \/ \E r \in Requests, p \in StoredPlatforms, q \in StoredProducts \cup {NONE} :
           post_data(r, p, q)
    \/ \E r \in Requests, ok \in BOOLEAN : store_done(r, ok)
    \/ \E i \in 1..Len(bcasts) : broadcast_send_done(i, TRUE)

SpecPlatform == InitStore /\ [][NextPlatform]_vars

\* The single-file application: observers connect and are sent the day's
\* rows, requests are ingested and broadcast, and a send may fail.
NextLegacy ==
    \/ lifespan_startup(TRUE)
    \/ \E c \in Conns : main_websocket_endpoint(c)
    \/ \E c \in Conns, ok \in BOOLEAN : main_accept_done(c, ok)
    \/ \E c \in Conns : main_get_scans_done(c)
    \/ \E c \in Conns : main_statistics_done(c)
    \/ \E c \in Conns, ok \in BOOLEAN : main_initial_data_done(c, ok)
    \/ \E r \in Requests, p \in Platforms, q \in Products \cup {NONE} :
           main_post_data(r, p, q)
    \/ \E r \in Requests, ok \in BOOLEAN : main_add_scan_done(r, ok)
    \/ \E i \in 1..Len(bcasts), ok \in BOOLEAN : broadcast_send_done(i, ok)

SpecLegacy == Init /\ [][NextLegacy]_vars

\* =============================================================== properties

\* The broadcast() call that ended in the last step, if one did.
Ended == obs.ret

BroadcastEnded ==
    /\ Ended.caller.kind \in {"post_data", "status_task"}
    /\ Ended.outcome # "none"

\* The connections a broadcast's send returned on, in the order of the sends.
Delivered(r) == SelectSeq(r.attempted, LAMBDA c : ~InList(r.failed, c))

\* C1: a broadcast over N connections in which exactly one connection k fails
\* its send, and during which no other task changes the list, delivers the
\* message once to each of the N-1 others, and when it returns the registered
\* connections are the previous ones without k.
C1_OneFailureIsIsolated ==
    (BroadcastEnded /\ ~Ended.interfered /\ Len(Ended.failed) = 1) =>
        LET k == Ended.failed[1]
        IN  /\ Ended.outcome = "returned"
            /\ \A c \in Range(Ended.start) \ {k} : Count(Delivered(Ended), c) = 1
            /\ Count(Delivered(Ended), k) = 0
            /\ Range(active_connections) = Range(Ended.start) \ {k}
            /\ active_connections = ListRemove(Ended.start, k)

\* A broadcast over three connections ended, the second one alone failed.
C1_Witness ==
    /\ BroadcastEnded /\ ~Ended.interfered
    /\ Len(Ended.start) = 3
    /\ Ended.failed = <<Ended.start[2]>>

\* C2: every connection that is in active_connections from the start to the
\* end of a broadcast call gets exactly one delivery attempt, whatever other
\* tasks connect or disconnect while the broadcast is suspended in a send.
C2_EveryStayerAttemptedOnce ==
    BroadcastEnded =>
        \A c \in Range(Ended.start) \cap Range(active_connections) :
            Count(Ended.attempted, c) = 1

\* C3: a send failure on any subset of connections never leaves broadcast():
\* it returns normally, and the post_data that awaited it answers success.
C3_SendFailuresStayInside ==
    BroadcastEnded =>
        /\ Ended.outcome = "returned"
        /\ Ended.caller.kind = "post_data" =>
               /\ reqs[Ended.caller.req].pc = "done"
               /\ reqs[Ended.caller.req].response = "success"

\* A post_data broadcast ended after the sends to two or more connections
\* had raised.
C3_Witness ==
    /\ BroadcastEnded
    /\ Ended.caller.kind = "post_data"
    /\ Len(Ended.failed) >= 2
    /\ reqs[Ended.caller.req].response = "success"

\* The connections that have a ScannerSession, and one connection's sessions.
Scanners(sc) == { sc[i].ws : i \in 1..Len(sc) }

SessionsOf(sc, c) == SelectSeq(sc, LAMBDA e : e.ws = c)

\* C4: a heartbeat handled for a connection without a ScannerSession creates
\* exactly one session for it; a later heartbeat of the same connection sets
\* last_heartbeat to the time it is handled at and creates nothing; there is
\* never more than one session per connection.
C4_OneSessionPerConnection ==
    /\ [](\A c \in Conns : Len(SessionsOf(scanner_connections, c)) <= 1)
    /\ [][\A c \in Conns :
            (pc[c] = "receive" /\ pc'[c] = "ack") =>
                LET others == SelectSeq(scanner_connections, LAMBDA e : e.ws # c)
                IN  IF SessionsOf(scanner_connections, c) = <<>>
                    THEN /\ Len(SessionsOf(scanner_connections', c)) = 1
                         /\ scanner_connections' =
                                others \o SessionsOf(scanner_connections', c)
                    ELSE /\ scanner_connections' =
                                [i \in 1..Len(scanner_connections) |->
                                    IF scanner_connections[i].ws = c
                                    THEN [scanner_connections[i]
                                             EXCEPT !.last_heartbeat = now]
                                    ELSE scanner_connections[i]]
                         /\ status_tasks' = status_tasks]_vars

\* A later heartbeat has moved a session's last_heartbeat past the time the
\* session was created at.
C4_Witness ==
    \E c \in Conns :
        /\ obs.calls # <<>> /\ obs.calls[1].op = "update_scanner_heartbeat"
        /\ obs.calls[1].ws = c
        /\ Len(SessionsOf(scanner_connections, c)) = 1
        /\ DictGet(scanner_connections, c).last_heartbeat
               > DictGet(scanner_connections, c).connected_at

\* C5: for every ScannerSession and every time it is read at, with
\* age = now - last_heartbeat >= 0 however large, the session is reported
\* is_active exactly when age < 60 seconds.
C5_ActiveIffYoungerThanSixty ==
    \A i \in 1..Len(scanner_connections) :
        LET age == now - scanner_connections[i].last_heartbeat
        IN  age >= 0 => (get_connected_scanners_info[i].is_active <=> age < 60)

\* The acks among the messages a step delivered.
Acks(sent) == SelectSeq(sent, LAMBDA m : m.msg.type = "heartbeat_ack")

\* C6: a heartbeat_ack is delivered only on the connection whose heartbeat
\* is being answered, it is the ack built for that heartbeat, and a heartbeat
\* gets at most one: the connection is back in its receive after it.
C6_AckOnlyToTheSender ==
    /\ [](\A c \in Conns : /\ Len(ack_msg[c]) <= 1
                            /\ (ack_msg[c] # <<>>) <=> (pc[c] = "ack"))
    /\ [][Acks(obs'.sent) # <<>> =>
            /\ Len(Acks(obs'.sent)) = 1
            /\ LET c == Acks(obs'.sent)[1].to
               IN  /\ pc[c] = "ack" /\ pc'[c] = "receive"
                   /\ ack_msg[c] = <<Acks(obs'.sent)[1].msg>>
                   /\ ack_msg'[c] = <<>>]_vars

\* An ack was delivered to the last of three registered connections.
C6_Witness ==
    /\ Len(active_connections) = 3
    /\ Len(Acks(obs.sent)) = 1
    /\ Acks(obs.sent)[1].to = active_connections[3]

\* A scanner_status listing station-A as active was delivered to o in the
\* last step.
StatusDelivered(o) ==
    \E k \in 1..Len(obs.sent) :
        /\ obs.sent[k].to = o
        /\ obs.sent[k].msg.type = "scanner_status"
        /\ \E j \in 1..Len(obs.sent[k].msg.scanners) :
               /\ obs.sent[k].msg.scanners[j].client = "station-A"
               /\ obs.sent[k].msg.scanners[j].is_active

\* C7: when a connection a sends its first heartbeat, labelled station-A,
\* every other connection o registered at that moment and staying registered
\* eventually receives a scanner_status listing station-A with is_active
\* true.  Stated for the runs in which a stays registered as well.
C7_OthersLearnOfTheScanner ==
    \A a \in Conns : \A o \in Conns \ {a} :
        (/\ obs.calls = <<Call("register_scanner", a, "station-A")>>
         /\ InList(active_connections, o))
        ~> (\/ ~InList(active_connections, o)
            \/ ~InList(active_connections, a)
            \/ StatusDelivered(o))

\* The disconnect calls among the calls a step made.
Disconnects(calls) == SelectSeq(calls, LAMBDA k : k.op = "disconnect")

\* C8: disconnect on a connection that is in neither collection changes
\* neither collection and creates no status task, so a second disconnect
\* leaves the state the first one left.
C8_DisconnectIsIdempotent ==
    /\ [](\A c \in Conns :
            /\ (~InList(active_connections, c) /\ ~HasKey(scanner_connections, c))
                   => disconnect(Manager, c) = Manager
            /\ disconnect(disconnect(Manager, c), c) = disconnect(Manager, c))
    /\ [][(/\ Disconnects(obs'.calls) # <<>>
           /\ \A k \in 1..Len(obs'.calls) : obs'.calls[k].detail = "absent")
            => UNCHANGED <<active_connections, scanner_connections,
                           status_tasks>>]_vars

\* The endpoint of a connection that had a session, and that a broadcast had
\* already disconnected, ended: its finally called disconnect once more.
C8_Witness ==
    \E c \in Conns :
        /\ obs.calls = <<Call("disconnect", c, "absent")>>
        /\ pc[c] = "done"
        /\ status_tasks > 0

CloseAllEnded ==
    /\ Ended.caller.kind = "lifespan"
    /\ Ended.outcome # "none"

\* C9: when close_all_connections returns, both collections are empty,
\* whether each close returned or raised, and close was called once on every
\* connection that was registered when it started.
C9_CloseAllClearsEverything ==
    CloseAllEnded =>
        /\ Ended.outcome = "returned"
        /\ lifespan.pc = "done"
        /\ active_connections = <<>>
        /\ scanner_connections = <<>>
        /\ \A c \in Range(Ended.start) : Count(Ended.attempted, c) = 1

\* close_all_connections returned after calling close on three connections,
\* and the last close raised.
C9_Witness ==
    /\ CloseAllEnded
    /\ Len(Ended.start) = 3
    /\ obs.calls = <<Call("close", Ended.start[3], "raised")>>

\* C10: the shutdown calls close_all_connections exactly once, and once it
\* has completed no connection is added to active_connections and no
\* ScannerSession is created.
C10_NothingRegistersAfterShutdown ==
    /\ [](/\ lifespan.calls <= 1
          /\ lifespan.pc \in {"closing", "done"} => lifespan.calls = 1)
    /\ [][lifespan.pc = "done" =>
            /\ Range(active_connections') \subseteq Range(active_connections)
            /\ Scanners(scanner_connections')
                   \subseteq Scanners(scanner_connections)]_vars

\* The endpoint calls of the last step with a credential that is not valid.
Refused(calls, c) ==
    \E k \in 1..Len(calls) :
        /\ calls[k].op = "websocket_endpoint" /\ calls[k].ws = c
        /\ calls[k].detail \in {"missing", "invalid"}

\* C11: a connection whose credential is missing or is rejected by the token
\* verification is closed with code 1008, is never in active_connections (nor
\* in scanner_connections), and no ack, broadcast or status is sent to it.
C11_RefusedBeforeAnyData ==
    /\ [][\A c \in Conns :
            Refused(obs'.calls, c) =>
                /\ pc'[c] = "reject"
                /\ \E k \in 1..Len(obs'.calls) :
                       obs'.calls[k] = Call("close", c, "1008")]_vars
    /\ [][\A c \in Conns :
            pc[c] \in {"reject", "rejected"} => pc'[c] \in {"reject", "rejected"}]_vars
    /\ [](\A c \in Conns :
            pc[c] \in {"reject", "rejected"} =>
                /\ ~InList(active_connections, c)
                /\ ~HasKey(scanner_connections, c)
                /\ ack_msg[c] = <<>>
                /\ \A i \in 1..Len(bcasts) : ~InList(bcasts[i].attempted, c)
                /\ \A k \in 1..Len(obs.sent) : obs.sent[k].to # c)

\* A message was delivered to a registered connection after the endpoints of
\* two connections without a valid token had ended.
C11_Witness ==
    \E c, d \in Conns :
        /\ pc[c] = "rejected" /\ pc[d] = "rejected" /\ c # d
        /\ obs.sent # <<>>

\* The frame handled in a step, if one was: its connection, the frame and
\* the level handle_message logged it at.
Handled(o) == o.frame

Unparsed == {"<malformed>", "<nonobject>"}

\* A step that handled a frame and did nothing else for it: nothing sent or
\* about to be sent, no collection changed, no broadcast or status task
\* created, the connection back in its receive.
Discarded(f) ==
    /\ UNCHANGED <<active_connections, scanner_connections, status_tasks,
                   bcasts, ack_msg>>
    /\ obs'.sent = <<>> /\ obs'.calls = <<>>
    /\ ack_msg'[f.ws] = <<>>
    /\ pc[f.ws] = "receive" /\ pc'[f.ws] = "receive"

\* C12: a frame that is no JSON, or no JSON object, is discarded:
\* handle_message catches the error, sends nothing, leaves both collections
\* unchanged, and the connection's loop goes on to the next receive.
C12_MalformedFrameIsDiscarded ==
    [][\A k \in 1..Len(Handled(obs')) :
          Handled(obs')[k].data.type \in Unparsed =>
              /\ Discarded(Handled(obs')[k])
              /\ Handled(obs')[k].log = "error"]_vars

\* A registered scanner sent a frame that is no JSON object, and is still
\* registered and in its receive.
C12_Witness ==
    /\ Len(Handled(obs)) = 1
    /\ Handled(obs)[1].data.type = "<nonobject>"
    /\ HasKey(scanner_connections, Handled(obs)[1].ws)
    /\ InList(active_connections, Handled(obs)[1].ws)
    /\ pc[Handled(obs)[1].ws] = "receive"

\* C13: a JSON object whose type is not heartbeat, or that has no type,
\* leaves both collections unchanged, gets no reply, creates no broadcast,
\* and is logged as information, not as an error.
C13_OtherTypesAreIgnored ==
    [][\A k \in 1..Len(Handled(obs')) :
          Handled(obs')[k].data.type \notin Unparsed \cup {"heartbeat"} =>
              /\ Discarded(Handled(obs')[k])
              /\ Handled(obs')[k].log = "info"]_vars

\* A registered scanner sent an object without a type, and is still
\* registered and in its receive.
C13_Witness ==
    /\ Len(Handled(obs)) = 1
    /\ Handled(obs)[1].data.type = ABSENT
    /\ HasKey(scanner_connections, Handled(obs)[1].ws)
    /\ InList(active_connections, Handled(obs)[1].ws)
    /\ pc[Handled(obs)[1].ws] = "receive"

\* The broadcast() calls of request r that are suspended in a send.
BroadcastsOf(bs, r) == SelectSeq(bs, LAMBDA b : b.caller = Request(r))

\* Request r's broadcast() of a new_pair for its platform and product was
\* called in the step: it is suspended in its first send, or it returned at
\* once because no connection is registered.
NewPairStarted(r) ==
    \/ /\ Len(BroadcastsOf(bcasts', r)) = 1
       /\ BroadcastsOf(bcasts', r)[1].msg.type = "new_pair"
       /\ BroadcastsOf(bcasts', r)[1].msg.data.platform = reqs[r].platform
       /\ BroadcastsOf(bcasts', r)[1].msg.data.product = reqs[r].product
       /\ reqs'[r].pc = "broadcast"
    \/ /\ active_connections = <<>>
       /\ obs'.ret.caller = Request(r) /\ obs'.ret.type = "new_pair"
       /\ obs'.ret.outcome = "returned"
       /\ reqs'[r].pc = "done" /\ reqs'[r].response = "success"

\* C14: for a request with a product the new_pair broadcast starts only
\* after add_scan has committed the record; when add_scan fails no broadcast
\* is made for the request and the caller gets a server error.
C14_BroadcastOnlyAfterCommit ==
    /\ [](\A r \in Requests :
            /\ reqs[r].pc \in {"new", "add_scan"} => BroadcastsOf(bcasts, r) = <<>>
            /\ (BroadcastsOf(bcasts, r) # <<>> /\ reqs[r].product # NONE) =>
                   \E i \in 1..Len(scans) :
                       /\ scans[i].platform = reqs[r].platform
                       /\ scans[i].product = reqs[r].product)
    /\ [][\A r \in Requests :
            (reqs[r].pc = "add_scan" /\ reqs'[r].pc # "add_scan") =>
                IF scans' # scans
                THEN /\ Len(scans') = Len(scans) + 1
                     /\ SubSeq(scans', 1, Len(scans)) = scans
                     /\ scans'[Len(scans')].platform = reqs[r].platform
                     /\ scans'[Len(scans')].product = reqs[r].product
                     /\ NewPairStarted(r)
                ELSE /\ reqs'[r].pc = "done"
                     /\ reqs'[r].response = "error500"
                     /\ bcasts' = bcasts
                     /\ obs'.ret = NoReturn /\ obs'.sent = <<>>]_vars

\* add_scan failed for a request with a product while two connections were
\* registered: the request has ended with an error and nothing is stored or
\* being broadcast.
C14_Witness ==
    \E r \in Requests :
        /\ reqs[r].pc = "done" /\ reqs[r].response = "error500"
        /\ reqs[r].product # NONE
        /\ Len(active_connections) >= 2
        /\ scans = <<>> /\ bcasts = <<>>

\* C15: after a request with platform p and product q has returned success,
\* every connection that was registered from the arrival of the request to
\* its return has received exactly one new_pair of that request, with p and q.
C15_ObserversGetTheNewPair ==
    \A r \in Requests :
        (/\ BroadcastEnded /\ Ended.caller = Request(r)
         /\ reqs[r].product # NONE
         /\ reqs[r].pc = "done" /\ reqs[r].response = "success") =>
            /\ Ended.type = "new_pair"
            /\ \A c \in Range(reqs[r].observers) \cap Range(active_connections) :
                   Count(Delivered(Ended), c) = 1

\* The records a change_platform message carries, as (platform, product, id).
PairsOf(pairs) ==
    UNION { { <<plat, pairs[plat][i].product, pairs[plat][i].scanId>> :
                i \in 1..Len(pairs[plat]) } : plat \in DOMAIN pairs }

\* The stored records of a platform whose scan_date is on the day of now.
TodaysRecords(platform) ==
    { <<row.platform, row.product, row.id>> :
        row \in { x \in Range(scans) :
                    /\ x.platform = platform
                    /\ x.scan_date[1] = CURRENT_TIMESTAMP(now)[1] } }

\* C16: a request without a product stores nothing, and the change_platform
\* message it broadcasts carries exactly the stored records of its platform
\* whose scan date is today, none of an earlier day.
C16_ChangePlatformCarriesTodaysPairs ==
    [][\A r \in Requests :
          (reqs[r].pc = "get_dict" /\ reqs'[r].pc = "broadcast") =>
              /\ scans' = scans
              /\ Len(BroadcastsOf(bcasts', r)) = 1
              /\ BroadcastsOf(bcasts', r)[1].msg.type = "change_platform"
              /\ BroadcastsOf(bcasts', r)[1].msg.data.platform = reqs[r].platform
              /\ PairsOf(BroadcastsOf(bcasts', r)[1].msg.data.pairs) =
                     TodaysRecords(reqs[r].platform)]_vars

\* The store call that returned in the step, if any.
StoreCalls(o) == o.store

Unfiltered(call) ==
    /\ call.op = "get_scan_pairs"
    /\ call.platform = NONE /\ call.product = NONE
    /\ call.date_from = <<>> /\ call.date_to = <<>> /\ call.date = <<>>

\* The list holds exactly one entry with the id of the add_scan call, and
\* that entry has the call's platform and product.
HoldsOnce(pairs, added) ==
    /\ Cardinality({ i \in 1..Len(pairs) : pairs[i].id = added.scan_id }) = 1
    /\ \A i \in 1..Len(pairs) :
           pairs[i].id = added.scan_id =>
               /\ pairs[i].platform = added.platform
               /\ pairs[i].product = added.product

\* C17: when add_scan(platform, product) has returned id i, every list an
\* unfiltered get_scan_pairs may return right afterwards, and the list it does
\* return when it is the next call, holds exactly one entry with id i, and
\* that entry has the given platform and product.
C17_AddedRecordIsFoundOnce ==
    /\ [](\A k \in 1..Len(StoreCalls(obs)) :
            StoreCalls(obs)[k].op = "add_scan" =>
                \A pairs \in get_scan_pairs(NONE, NONE, <<>>, <<>>, <<>>) :
                    HoldsOnce(pairs, StoreCalls(obs)[k]))
    /\ [][(/\ StoreCalls(obs) # <<>> /\ StoreCalls(obs') # <<>>
           /\ StoreCalls(obs)[1].op = "add_scan"
           /\ Unfiltered(StoreCalls(obs')[1])) =>
              HoldsOnce(StoreCalls(obs')[1].pairs, StoreCalls(obs)[1])]_vars

\* add_scan has just returned the id of a second row, with the platform and
\* the product of the row already stored.
C17_Witness ==
    /\ StoreCalls(obs) # <<>>
    /\ StoreCalls(obs)[1].op = "add_scan"
    /\ Len(scans) = 2
    /\ StoreCalls(obs)[1].scan_id = 2
    /\ scans[1].platform = scans[2].platform
    /\ scans[1].product = scans[2].product

\* The instant a stored scan_date names, in seconds.
InstantOf(scan_date) == scan_date[1] * 86400 + scan_date[3]

\* The instant a date_from or date_to names: the given time of day, or for a
\* calendar day its midnight (date_from) or its last second (date_to).
BoundOf(param, timeless) ==
    IF Len(param) = 1 THEN param[1] * 86400 + timeless
    ELSE param[1] * 86400 + param[3]

\* The row satisfies every filter the call supplies: the platform, the
\* product, and the day of date or else the range of date_from and date_to.
Satisfies(row, call) ==
    /\ call.platform # NONE => row.platform = call.platform
    /\ call.product # NONE => row.product = call.product
    /\ IF call.date # <<>>
       THEN row.scan_date[1] = call.date[1]
       ELSE /\ call.date_from # <<>> =>
                   InstantOf(row.scan_date) >= BoundOf(call.date_from, 0)
            /\ call.date_to # <<>> =>
                   InstantOf(row.scan_date) <= BoundOf(call.date_to, 86399)

\* The list holds each of the rows once, as entries, and nothing else.
ExactlyTheRows(pairs, rows) ==
    /\ Len(pairs) = Cardinality(rows)
    /\ { pairs[i] : i \in 1..Len(pairs) } =
           { [id |-> row.id, platform |-> row.platform, product |-> row.product,
              timestamp |-> row.scan_date] : row \in rows }

\* C18: the list get_scan_pairs returns holds exactly the stored records
\* that satisfy every supplied filter at once; an omitted filter constrains
\* nothing; and with a date the records are those of that day whatever
\* date_from and date_to are.
C18_FiltersAreConjunctive ==
    \A k \in 1..Len(StoreCalls(obs)) :
        StoreCalls(obs)[k].op = "get_scan_pairs" =>
            ExactlyTheRows(StoreCalls(obs)[k].pairs,
                           { row \in Range(scans) :
                               Satisfies(row, StoreCalls(obs)[k]) })

\* A query with a platform, a product, a date and a date_from later in that
\* day has returned one of two stored rows: a row of the day from before
\* date_from.
C18_Witness ==
    /\ StoreCalls(obs) # <<>>
    /\ StoreCalls(obs)[1].op = "get_scan_pairs"
    /\ StoreCalls(obs)[1].platform = 7 /\ StoreCalls(obs)[1].product = 42
    /\ StoreCalls(obs)[1].date = <<1>>
    /\ StoreCalls(obs)[1].date_from = <<1, TEE, 36000>>
    /\ Len(scans) = 2
    /\ Len(StoreCalls(obs)[1].pairs) = 1
    /\ StoreCalls(obs)[1].pairs[1].timestamp = CURRENT_TIMESTAMP(86400)

\* A query with a date and no other filter.
OnlyDate(call) ==
    /\ call.op = "get_scan_pairs"
    /\ call.date # <<>>
    /\ call.platform = NONE /\ call.product = NONE
    /\ call.date_from = <<>> /\ call.date_to = <<>>

Returned(call) == { call.pairs[i].id : i \in 1..Len(call.pairs) }

\* C19: with the date filter a calendar day D, a stored record is returned
\* if and only if its timestamp lies from D 00:00:00 to D 23:59:59, both
\* included: a record of D at 10:00:00 is returned, a record of the day
\* before or after is not.
C19_DateIsOneInclusiveDay ==
    \A k \in 1..Len(StoreCalls(obs)) :
        OnlyDate(StoreCalls(obs)[k]) =>
            \A row \in Range(scans) :
                row.id \in Returned(StoreCalls(obs)[k]) <=>
                    /\ InstantOf(row.scan_date) >=
                           StoreCalls(obs)[k].date[1] * 86400
                    /\ InstantOf(row.scan_date) <=
                           StoreCalls(obs)[k].date[1] * 86400 + 86399

\* A query for day 1 on a table with a row at 23:59:59 of day 1 and a row at
\* 00:00:00 of day 2 has returned the first row only.
C19_Witness ==
    /\ StoreCalls(obs) # <<>>
    /\ OnlyDate(StoreCalls(obs)[1])
    /\ StoreCalls(obs)[1].date = <<1>>
    /\ Len(scans) = 2
    /\ scans[1].scan_date = CURRENT_TIMESTAMP(172799)
    /\ scans[2].scan_date = CURRENT_TIMESTAMP(172800)
    /\ Returned(StoreCalls(obs)[1]) = {1}

\* C20: whatever the filters, in the list get_scan_pairs returns the
\* timestamp of an entry is never before the timestamp of the entry after it.
C20_NewestFirst ==
    \A k \in 1..Len(StoreCalls(obs)) :
        StoreCalls(obs)[k].op = "get_scan_pairs" =>
            \A i \in 1..(Len(StoreCalls(obs)[k].pairs) - 1) :
                InstantOf(StoreCalls(obs)[k].pairs[i].timestamp) >=
                    InstantOf(StoreCalls(obs)[k].pairs[i + 1].timestamp)

\* A query filtered by platform and date_from has returned two rows stored
\* at different instants, the row stored last in front.
C20_Witness ==
    /\ StoreCalls(obs) # <<>>
    /\ StoreCalls(obs)[1].op = "get_scan_pairs"
    /\ StoreCalls(obs)[1].platform = 7
    /\ StoreCalls(obs)[1].date_from = <<1>>
    /\ Len(StoreCalls(obs)[1].pairs) = 2
    /\ StoreCalls(obs)[1].pairs[1].id = 2
    /\ StoreCalls(obs)[1].pairs[2].id = 1
    /\ StoreCalls(obs)[1].pairs[1].timestamp # StoreCalls(obs)[1].pairs[2].timestamp

\* The ids stored in the table.
StoredIds(table) == { table[i].id : i \in 1..Len(table) }

\* C21: the ids add_scan returns are unique and strictly increasing, also
\* across clear_all_scans and delete_scans_by_date: the stored ids are
\* distinct and none is above the greatest id ever assigned, which no step
\* lowers; and an add_scan returns an id above it, so above every id assigned
\* before, stored or deleted.
C21_IdsAreNeverReused ==
    /\ [](/\ Cardinality(StoredIds(scans)) = Len(scans)
          /\ \A i \in 1..Len(scans) : scans[i].id <= sqlite_sequence
          /\ \A i \in 1..(Len(scans) - 1) : scans[i].id < scans[i + 1].id)
    /\ [][/\ sqlite_sequence' >= sqlite_sequence
          /\ (StoreCalls(obs') # <<>> /\ StoreCalls(obs')[1].op = "add_scan") =>
                 /\ StoreCalls(obs')[1].scan_id > sqlite_sequence
                 /\ \A n \in StoredIds(scans) : StoreCalls(obs')[1].scan_id > n
                 /\ StoredIds(scans') = StoredIds(scans) \cup
                                            {StoreCalls(obs')[1].scan_id}]_vars

\* add_scan has returned id 3 into a table that two earlier rows were deleted
\* from: the new row is the only one.
C21_Witness ==
    /\ StoreCalls(obs) # <<>>
    /\ StoreCalls(obs)[1].op = "add_scan"
    /\ StoreCalls(obs)[1].scan_id = 3
    /\ StoredIds(scans) = {3}

\* The positions of the map at which the record with the id stands.
PlacesOf(response, id) ==
    UNION { { <<plat, j>> : j \in { n \in 1..Len(response[plat]) :
                                      response[plat][n].scanId = id } } :
            plat \in DOMAIN response }

\* C22: in the map the query route returns, every record get_scan_pairs
\* returned for the route's filters stands exactly once, as {product, scanId}
\* under its own platform, records of one platform in the order they have in
\* the list; the map holds nothing else, and a platform without a record is
\* no key.
C22_MapHoldsEachRecordOnce ==
    \A k \in 1..Len(StoreCalls(obs)) :
        StoreCalls(obs)[k].op = "get_dict" =>
            LET pairs == StoreCalls(obs)[k].pairs
                response == StoreCalls(obs)[k].response
            IN  /\ DOMAIN response = { pairs[i].platform : i \in 1..Len(pairs) }
                /\ \A plat \in DOMAIN response :
                       /\ Len(response[plat]) >= 1
                       /\ \A j \in 1..Len(response[plat]) :
                              \E i \in 1..Len(pairs) :
                                  /\ pairs[i].id = response[plat][j].scanId
                                  /\ pairs[i].platform = plat
                /\ \A i \in 1..Len(pairs) :
                       /\ Cardinality(PlacesOf(response, pairs[i].id)) = 1
                       /\ \A pl \in PlacesOf(response, pairs[i].id) :
                              /\ pl[1] = pairs[i].platform
                              /\ response[pl[1]][pl[2]].product = pairs[i].product
                /\ \A i, j \in 1..Len(pairs) :
                       (i < j /\ pairs[i].platform = pairs[j].platform) =>
                           \A pi \in PlacesOf(response, pairs[i].id),
                              pj \in PlacesOf(response, pairs[j].id) :
                               pi[2] < pj[2]

\* The route has answered an unfiltered query on a table of two rows of one
\* platform: the map has that platform as its only key, with both records in
\* the order of the list.
C22_Witness ==
    /\ StoreCalls(obs) # <<>>
    /\ StoreCalls(obs)[1].op = "get_dict"
    /\ StoreCalls(obs)[1].platform = NONE
    /\ Len(StoreCalls(obs)[1].pairs) = 2
    /\ DOMAIN StoreCalls(obs)[1].response = {7}
    /\ Len(StoreCalls(obs)[1].response[7]) = 2
    /\ StoreCalls(obs)[1].response[7][1].scanId = StoreCalls(obs)[1].pairs[1].id

\* The answer of the presence read made in the step, if any.
PresenceRead(o) == SelectSeq(o.http, LAMBDA a : a.route = "get_scanners")

\* C23: the presence read returns one entry per tracked ScannerSession, with
\* that session's client and times, and no other entry; its total_scanners
\* is the number of entries of the scanners list.
C23_PresenceReadIsTheTrackedSet ==
    \A k \in 1..Len(PresenceRead(obs)) :
        LET answer == PresenceRead(obs)[k]
        IN  /\ answer.total_scanners = Len(answer.scanners)
            /\ Len(answer.scanners) = Cardinality(Scanners(scanner_connections))
            /\ \A i \in 1..Len(answer.scanners) :
                   /\ answer.scanners[i].client = scanner_connections[i].client
                   /\ answer.scanners[i].connected_at =
                          isoformat(scanner_connections[i].connected_at)
                   /\ answer.scanners[i].last_heartbeat =
                          isoformat(scanner_connections[i].last_heartbeat)

\* The presence read has answered while two scanners were tracked.
C23_Witness ==
    /\ PresenceRead(obs) # <<>>
    /\ PresenceRead(obs)[1].total_scanners = 2
    /\ Len(PresenceRead(obs)[1].scanners) = 2
    /\ Len(scanner_connections) = 2

\* The receive of connection c ends in the step: the transport closed
\* (WebSocketDisconnect) or receive_text raised an error.
ReceiveFails(c) ==
    /\ pc[c] = "receive"
    /\ \/ pc'[c] = "done"
       \/ /\ obs'.frame # <<>>
          /\ obs'.frame[1].ws = c
          /\ obs'.frame[1].data = ReceiveRaised

\* C24: when the transport of an accepted connection closes, or a receive on
\* it fails with any error, the receive loop ends and disconnect runs for
\* the connection in the same step: the loop does not go back to receive.
C24_ReceiveFailureEndsTheLoop ==
    [][\A c \in Conns :
          ReceiveFails(c) =>
              /\ pc'[c] = "done"
              /\ Disconnects(obs'.calls) # <<>>
              /\ ~InList(active_connections', c)]_vars

\* C25: while a broadcast() is iterating active_connections the list is not
\* changed: from the first send of a pass to its last no connection is added
\* to it or removed from it, and the connections whose send failed are
\* removed only when the pass has visited every connection and ends.
C25_NoMutationDuringThePass ==
    [][/\ (bcasts # <<>> /\ bcasts' # <<>>) =>
              active_connections' = active_connections
       /\ (Len(bcasts') < Len(bcasts) /\ obs'.ret.outcome = "returned") =>
              Range(active_connections) \ Range(active_connections') \subseteq
                  Range(obs'.ret.failed)]_vars

\* A teardown of connection c in the step discarded its ScannerSession.
SessionDiscarded(o, c) ==
    \E k \in 1..Len(o.calls) : o.calls[k] = Call("disconnect", c, "scanner")

\* C26: once a teardown of a connection has discarded its ScannerSession, no
\* later frame of the connection creates a ScannerSession for it again; in
\* particular not the frame that comes right after the teardown.
C26_TerminalIsAbsorbing ==
    [][\A c \in Conns :
          SessionDiscarded(obs, c) =>
              ~(~HasKey(scanner_connections, c) /\ HasKey(scanner_connections', c))
      ]_vars

\* C27: every connection that has a ScannerSession in scanner_connections
\* is a member of active_connections.
C27_SessionsAreOfTrackedConnections ==
    \A c \in Scanners(scanner_connections) : InList(active_connections, c)

\* C28: every step that changes which connections have a ScannerSession (a
\* first heartbeat creates one, a disconnect removes one, close_all_connections
\* empties the set) creates a broadcast_scanner_status task, and ends without
\* a send of that broadcast having started.
C28_MembershipChangeIsAnnounced ==
    [][Scanners(scanner_connections') # Scanners(scanner_connections) =>
          /\ status_tasks' > status_tasks
          /\ Len(bcasts') <= Len(bcasts)]_vars

\* C29: the ScannerSession a first heartbeat creates has connected_at equal
\* to last_heartbeat, and in every state connected_at <= last_heartbeat for
\* every tracked session.
C29_ConnectedAtIsFirstHeartbeat ==
    /\ [](\A i \in 1..Len(scanner_connections) :
            scanner_connections[i].connected_at <=
                scanner_connections[i].last_heartbeat)
    /\ [][\A c \in Conns :
            (~HasKey(scanner_connections, c) /\ HasKey(scanner_connections', c)) =>
                DictGet(scanner_connections', c).connected_at =
                    DictGet(scanner_connections', c).last_heartbeat]_vars

\* The step in which handle_message took a heartbeat of connection c that
\* already had a ScannerSession.
LaterHeartbeat(c) ==
    /\ HasKey(scanner_connections, c)
    /\ obs'.frame # <<>>
    /\ obs'.frame[1].ws = c
    /\ obs'.frame[1].data.type = "heartbeat"

\* C30: a heartbeat from a connection that already has a ScannerSession
\* changes only that session's last_heartbeat: the session keeps its place,
\* its client label and its connected_at, every other connection's session
\* and active_connections are unchanged, and no broadcast_scanner_status task
\* is created and no broadcast started.
C30_LaterHeartbeatTouchesOnlyLastHeartbeat ==
    [][\A c \in Conns :
          LaterHeartbeat(c) =>
              /\ Len(scanner_connections') = Len(scanner_connections)
              /\ \A i \in 1..Len(scanner_connections) :
                    IF scanner_connections[i].ws = c
                    THEN /\ scanner_connections'[i].ws = c
                         /\ scanner_connections'[i].client =
                                scanner_connections[i].client
                         /\ scanner_connections'[i].connected_at =
                                scanner_connections[i].connected_at
                    ELSE scanner_connections'[i] = scanner_connections[i]
              /\ active_connections' = active_connections
              /\ status_tasks' = status_tasks
              /\ bcasts' = bcasts]_vars

\* A later heartbeat of one scanner has been handled, carrying another client
\* label than the one its session was created with, while another connection
\* has a session of its own.
C30_Witness ==
    \E c \in Conns : \E d \in Conns \ {c} :
        /\ obs.frame # <<>> /\ obs.frame[1].ws = c
        /\ obs.frame[1].data.type = "heartbeat"
        /\ obs.calls # <<>> /\ obs.calls[1].op = "update_scanner_heartbeat"
        /\ HasKey(scanner_connections, c) /\ HasKey(scanner_connections, d)
        /\ InList(active_connections, c)
        /\ obs.frame[1].data.client # ABSENT
        /\ obs.frame[1].data.client # DictGet(scanner_connections, c).client

\* The entries a presence snapshot has for connection c.
ReportedOf(c) ==
    { get_connected_scanners_info[i] :
        i \in { j \in 1..Len(scanner_connections) :
                  scanner_connections[j].ws = c } }

\* The connections whose session has had no heartbeat for 60 s or more.
Stale ==
    { scanner_connections[i].ws :
        i \in { j \in 1..Len(scanner_connections) :
                  now - scanner_connections[j].last_heartbeat >= 60 } }

\* C31: the passage of time alone removes no ScannerSession and no
\* connection: a step that calls no disconnect, whatever the age of the
\* sessions, keeps every session and every connection; a broadcast that starts
\* is addressed to the whole of active_connections, stale scanners included;
\* and after a later heartbeat of a connection its session is reported
\* is_active again.
C31_TimeAloneRemovesNothing ==
    [][/\ (\A k \in 1..Len(obs'.calls) : obs'.calls[k].op # "disconnect") =>
              /\ Scanners(scanner_connections) \subseteq Scanners(scanner_connections')
              /\ Range(active_connections) \subseteq Range(active_connections')
       /\ Len(bcasts') > Len(bcasts) =>
              bcasts'[Len(bcasts')].start = active_connections
       /\ \A c \in Conns :
              LaterHeartbeat(c) => \A e \in ReportedOf(c)' : e.is_active]_vars

\* A scanner_status that reports a scanner inactive has been delivered to
\* that scanner itself, 60 s or more after its last heartbeat.
C31_Witness ==
    \E c \in Stale :
        /\ InList(active_connections, c)
        /\ obs.sent # <<>>
        /\ obs.sent[1].to = c
        /\ obs.sent[1].msg.type = "scanner_status"
        /\ \E i \in 1..Len(obs.sent[1].msg.scanners) :
               ~obs.sent[1].msg.scanners[i].is_active
        /\ \A e \in ReportedOf(c) : ~e.is_active

\* A query with a range and no date.
OnlyRange(call) ==
    /\ call.op = "get_scan_pairs"
    /\ call.date = <<>>
    /\ call.date_from # <<>> \/ call.date_to # <<>>

\* C32: with date_from D1 and/or date_to D2 and no date, get_scan_pairs
\* returns exactly the records (of the platform and product asked for) whose
\* timestamp is at or after D1 00:00:00 when D1 has no time, at or before
\* D2 23:59:59 when D2 has no time, and at or after, or before, the instant a
\* bound with a time names, the bound's 'T' read as the space of the stored
\* timestamps.
C32_RangeBoundsAreWholeDaysOrInstants ==
    \A k \in 1..Len(StoreCalls(obs)) :
        LET call == StoreCalls(obs)[k]
            from == IF Len(call.date_from) = 1
                    THEN call.date_from[1] * 86400
                    ELSE call.date_from[1] * 86400 + call.date_from[3]
            to == IF Len(call.date_to) = 1
                  THEN call.date_to[1] * 86400 + 86399
                  ELSE call.date_to[1] * 86400 + call.date_to[3]
        IN  OnlyRange(call) =>
                \A row \in Range(scans) :
                    row.id \in Returned(call) <=>
                        /\ call.platform # NONE => row.platform = call.platform
                        /\ call.product # NONE => row.product = call.product
                        /\ call.date_from # <<>> => InstantOf(row.scan_date) >= from
                        /\ call.date_to # <<>> => InstantOf(row.scan_date) <= to

\* A query from 10:00:00 of a day, written with a 'T', to that day, has
\* returned the record of the day's last second and not the record of the
\* next midnight.
C32_Witness ==
    /\ StoreCalls(obs) # <<>>
    /\ OnlyRange(StoreCalls(obs)[1])
    /\ StoreCalls(obs)[1].date_from = <<1, TEE, 36000>>
    /\ StoreCalls(obs)[1].date_to = <<1>>
    /\ Len(scans) = 2
    /\ scans[1].scan_date = CURRENT_TIMESTAMP(172799)
    /\ scans[2].scan_date = CURRENT_TIMESTAMP(172800)
    /\ Returned(StoreCalls(obs)[1]) = {scans[1].id}

\* No broadcast_scanner_status task is waiting to run and no broadcast() is
\* in progress.
Quiescent == status_tasks = 0 /\ bcasts = <<>>

\* C33: in every quiescent state, the last scanner_status each registered
\* connection has been sent, if it has been sent one, lists exactly the
\* sessions of scanner_connections, in their order.
C33_LastStatusIsTheTrackedSet ==
    Quiescent =>
        \A c \in Range(active_connections) :
            inbox[c].scanner_status # <<>> =>
                inbox[c].scanner_status[1] = Listed(get_connected_scanners_info)

\* C34: a broadcast_scanner_status task that a registration has created,
\* when it runs with connections registered, starts a broadcast of a
\* scanner_status that lists every tracked session, whatever the client field
\* of the heartbeats was (a string, null, or absent); and a session created
\* from a heartbeat without the field has the label 'unknown'.
C34_StatusIsSentForEveryClientField ==
    /\ [](\A i \in 1..Len(scanner_connections) :
            scanner_connections[i].client # ABSENT)
    /\ [][(status_tasks' < status_tasks /\ active_connections # <<>>) =>
            /\ Len(bcasts') = Len(bcasts) + 1
            /\ bcasts'[Len(bcasts')].msg.type = "scanner_status"
            /\ Listed(bcasts'[Len(bcasts')].msg.scanners) =
                   Listed(get_connected_scanners_info)]_vars

\* The send of connection c's heartbeat_ack raised in the step.
AckFailed(c) ==
    /\ pc[c] = "ack"
    /\ obs'.calls = <<Call("send_text", c, "raised")>>

\* C35: when the send of a heartbeat_ack fails, the step changes neither
\* scanner_connections (the session made or updated for the heartbeat stays
\* as it is) nor active_connections, calls no disconnect and creates no
\* task, and the connection's task is back in receive_text, from which the
\* next frame is handled.
C35_AckFailureIsSwallowed ==
    [][\A c \in Conns :
          AckFailed(c) =>
              /\ scanner_connections' = scanner_connections
              /\ active_connections' = active_connections
              /\ status_tasks' = status_tasks
              /\ bcasts' = bcasts
              /\ obs'.sent = <<>>
              /\ pc'[c] = "receive"
              /\ ack_msg'[c] = <<>>]_vars

\* The send of a registered scanner's heartbeat_ack has failed: its session
\* and its registration are still there and its task is in receive_text.
C35_Witness ==
    \E c \in Conns :
        /\ obs.calls = <<Call("send_text", c, "raised")>>
        /\ HasKey(scanner_connections, c)
        /\ InList(active_connections, c)
        /\ pc[c] = "receive"

\* C36: when close_all_connections returns, a close has been attempted on
\* every connection that is in active_connections at that moment, those
\* accepted while the closes were awaited included, before the collections
\* are cleared.
C36_NoConnectionIsClearedUnclosed ==
    [][(lifespan.pc # "done" /\ lifespan'.pc = "done") =>
          \A c \in Range(active_connections) : InList(obs'.ret.attempted, c)]_vars

\* No broadcast_scanner_status task is pending and none is running.
NoStatusBroadcast ==
    /\ status_tasks = 0
    /\ \A i \in 1..Len(bcasts) : bcasts[i].caller # StatusTask

\* C37: once the inputs (frames, connects) have ended, the status broadcasts
\* that send failures set off (a failed send disconnects a scanner, which
\* creates another broadcast_scanner_status task, whose sends may fail on
\* further connections) come to an end: from some moment on no
\* broadcast_scanner_status task is pending or running.
C37_StatusChainTerminates == <>[]NoStatusBroadcast

\* A send of a scanner_status has failed on a scanner, and the disconnect that
\* follows has created the next broadcast_scanner_status task.
C37_Witness ==
    /\ obs.ret.caller = StatusTask
    /\ obs.ret.type = "scanner_status"
    /\ obs.ret.failed # <<>>
    /\ \E k \in 1..Len(obs.calls) :
           obs.calls[k].op = "disconnect" /\ obs.calls[k].detail = "scanner"
    /\ status_tasks > 0

\* The websockets disconnect was called on in the step, when each of them
\* was registered and had no ScannerSession.
ObserversLeft(o) ==
    IF /\ Disconnects(o.calls) # <<>>
       /\ \A k \in 1..Len(Disconnects(o.calls)) :
              Disconnects(o.calls)[k].detail = "present"
    THEN { Disconnects(o.calls)[k].ws : k \in 1..Len(Disconnects(o.calls)) }
    ELSE {}

\* C38: a disconnect of a connection that has no ScannerSession removes that
\* connection from active_connections and nothing else: the other
\* connections stay, in their order, scanner_connections is unchanged, and no
\* broadcast_scanner_status task is created.
C38_ObserverLeavesAlone ==
    [][ObserversLeft(obs') # {} =>
          /\ active_connections' =
                 SelectSeq(active_connections,
                           LAMBDA c : c \notin ObserversLeft(obs'))
          /\ scanner_connections' = scanner_connections
          /\ status_tasks' = status_tasks]_vars

\* An observer has disconnected while a scanner is tracked and another
\* connection is registered.
C38_Witness ==
    /\ Cardinality(ObserversLeft(obs)) = 1
    /\ scanner_connections # <<>>
    /\ active_connections # <<>>
    /\ \A c \in ObserversLeft(obs) :
           ~InList(active_connections, c) /\ ~HasKey(scanner_connections, c)

\* Connection c of main.py is through its connect and registered, and
\* nothing is under way: no request is being handled, no broadcast is in
\* progress.
Settled(c) ==
    /\ pc[c] = "receive"
    /\ InList(active_connections, c)
    /\ bcasts = <<>>
    /\ \A r \in Requests : reqs[r].pc \in {"new", "done"}

\* C39: with main.py's connect, which registers the websocket before it
\* queries and sends initial_data, a connection that has connected and stays
\* connected has been sent every row of today that scans holds, in its
\* initial_data or in a new_pair, once the requests and the broadcasts have
\* ended.
C39_NoScanIsLostToAConnectingObserver ==
    \A c \in Conns :
        Settled(c) =>
            \A i \in 1..Len(scans) :
                DATE(scans[i].scan_date) = date_today =>
                    scans[i].id \in inbox[c].scans

====
